---- MODULE Spec2Model ----
(***************************************************************************)
(* Model of two parts of the OpenFPGA flow:                                *)
(*   - check_circuit_library (libarchfpga/SRC/check_circuit_library.cpp):  *)
(*     the rule checker of the circuit-model library;                      *)
(*   - print_verilog_preconfig_top_module_load_bitstream                   *)
(*     (fpga_x2p/verilog/verilog_preconfig_top_module.cpp): the block that *)
(*     imposes the fabric bitstream on the configuration memories.         *)
(*   - the rest of print_verilog_preconfig_top_module of the same file:    *)
(*     the binder of the global ports, the binder of the benchmark I/Os    *)
(*     and the sequence of sections of the generated netlist.              *)
(* Spec            steps through check_circuit_library, one action per     *)
(*                 call.                                                   *)
(* SpecBitstream   steps through the bitstream loop, one action per bit.   *)
(* SpecGlobalPorts steps through ..._connect_global_ports, one action per  *)
(*                 global port of the top module.                          *)
(* SpecIos         steps through ..._connect_ios, one action per logical   *)
(*                 block and one per pad bit.                              *)
(* SpecTop         steps through print_verilog_preconfig_top_module, one   *)
(*                 action per call and the steps of the callees.           *)
(***************************************************************************)
EXTENDS Integers, Sequences, FiniteSets, TLC

VARIABLES
  circuit_lib,       \* the CircuitLibrary handed to check_circuit_library
  pc,                \* position inside check_circuit_library
  num_err,           \* the local size_t num_err of check_circuit_library
  log,               \* what vpr_printf has written: ERROR lines and the final line
  counted,           \* the value each "num_err += check(...)" call returned, in call order
  bitstream_manager, \* the BitstreamManager: block tree and bit values
  top_module_name,   \* module_manager.module_name(top_module)
  fabric_bitstream,  \* the std::vector<ConfigBitId> to load
  bit_pc,            \* position inside ..._load_bitstream
  bit_i,             \* how many elements of fabric_bitstream the loop has consumed
  fp,                \* what has been written to the Verilog stream
  module_manager,    \* the ModuleManager: its modules and the ports of the top module
  global_ports,      \* the std::vector<CircuitPortId> of global circuit ports
  benchmark_clock_port_names, \* the names of the clocks of the benchmark
  glob_pc,           \* position inside ..._connect_global_ports
  glob_i,            \* how many global ports of the top module the loop has consumed
  L_logical_blocks,  \* the logical blocks of the benchmark
  L_blocks,          \* the placement: the pad index of each logical block
  io_used,           \* the std::vector<bool> io_used of ..._connect_ios
  io_pc,             \* position inside ..._connect_ios
  io_i,              \* how many elements the current loop of ..._connect_ios has consumed
  top_pc             \* position inside print_verilog_preconfig_top_module

lib_vars == <<circuit_lib, pc, num_err, log, counted>>
bit_vars == <<bitstream_manager, top_module_name, fabric_bitstream, bit_pc, bit_i, fp>>
bit_state == <<bitstream_manager, top_module_name, fabric_bitstream, bit_pc, bit_i>>
glob_vars == <<module_manager, global_ports, benchmark_clock_port_names, glob_pc, glob_i>>
io_vars == <<L_logical_blocks, L_blocks, io_used, io_pc, io_i>>
gen_vars == <<glob_vars, io_vars, top_pc>>
vars == <<circuit_lib, pc, num_err, log, counted,
          bitstream_manager, top_module_name, fabric_bitstream, bit_pc, bit_i, fp,
          module_manager, global_ports, benchmark_clock_port_names, glob_pc, glob_i,
          L_logical_blocks, L_blocks, io_used, io_pc, io_i, top_pc>>

(***************************************************************************)
(* Bounds of the model.                                                    *)
(***************************************************************************)
\* number of positions of a catalog; a position may stay empty
MaxModels == 6
\* number of blocks of the bitstream manager's block tree
MaxBlocks == 3
\* longest fabric bitstream
MaxBits == 3

(***************************************************************************)
(* The circuit library: models and their ports.                            *)
(***************************************************************************)
\* a circuit port: type, size and the attributes the checker reads
Port(type, size, is_global, flags) ==
  [type |-> type, size |-> size, is_global |-> is_global,
   is_set |-> "set" \in flags, is_reset |-> "reset" \in flags,
   is_config_enable |-> "config_enable" \in flags]

\* a plain port: not global, neither set, reset nor config-enable
P(type, size) == Port(type, size, FALSE, {})

\* a circuit model
Model(name, prefix, type, is_default, ports) ==
  [name |-> name, prefix |-> prefix, type |-> type,
   is_default |-> is_default, ports |-> ports]

\* the name (and prefix) several models may share
SharedName == "shared"

\* the name (and prefix) that only position i uses
OwnName(i) ==
  <<"iopad", "mux", "mem", "logic", "chan_wire", "wire", "extra7", "extra8", "extra9">>[i]

IopadPorts == <<P("INPUT", 1), P("OUTPUT", 1), P("INOUT", 1), P("SRAM", 1)>>
MuxPorts == <<P("INPUT", 2), P("OUTPUT", 1), P("SRAM", 1)>>
SramPorts == <<P("INPUT", 1), P("OUTPUT", 2)>>
ScffPorts == <<P("CLOCK", 1), P("INPUT", 1), P("OUTPUT", 1), P("OUTPUT", 1)>>
FFPorts ==
  <<P("INPUT", 1), P("INPUT", 1), P("INPUT", 1), P("CLOCK", 1), P("OUTPUT", 1)>>
LutPorts == <<P("SRAM", 2), P("INPUT", 2), P("OUTPUT", 1)>>

\* the models that may stand at position i of a catalog
SlotPool(i) ==
  LET own == OwnName(i) IN
  CASE i = 1 ->
       { Model(own, own, "IOPAD", FALSE, IopadPorts),
         Model(SharedName, own, "IOPAD", FALSE, IopadPorts),
         Model(own, SharedName, "IOPAD", FALSE, IopadPorts),
         Model(own, own, "IOPAD", FALSE, <<P("INPUT", 1), P("OUTPUT", 1)>>),
         Model(own, own, "IOPAD", FALSE,
               IopadPorts \o <<Port("OUTPUT", 1, TRUE, {})>>) }
    [] i = 2 ->
       { Model(own, own, "MUX", TRUE, MuxPorts),
         Model(own, own, "MUX", FALSE, MuxPorts),
         Model(SharedName, own, "MUX", TRUE, MuxPorts),
         Model(own, own, "MUX", TRUE, <<P("INPUT", 2), P("OUTPUT", 1)>>),
         Model(own, own, "MUX", TRUE,
               MuxPorts \o <<Port("INPUT", 1, FALSE, {"set", "reset"})>>) }
    [] i = 3 ->
       { Model(own, own, "SRAM", FALSE, SramPorts),
         Model(own, own, "SRAM", FALSE, <<P("OUTPUT", 2)>>),
         Model(own, own, "SRAM", FALSE, <<P("INPUT", 1), P("OUTPUT", 1)>>),
         Model(own, own, "SCFF", FALSE, ScffPorts),
         Model(own, own, "SCFF", FALSE, <<P("INPUT", 1), P("OUTPUT", 1)>>) }
    [] i = 4 ->
       { Model(own, own, "LUT", FALSE, LutPorts),
         Model(SharedName, SharedName, "LUT", FALSE, LutPorts),
         Model(own, own, "LUT", FALSE, <<P("INPUT", 2), P("OUTPUT", 1)>>),
         Model(own, own, "FF", FALSE, FFPorts),
         Model(own, own, "FF", FALSE,
               <<P("INPUT", 2), P("INPUT", 2), P("CLOCK", 1), P("OUTPUT", 1)>>),
         Model(own, own, "IOPAD", FALSE, <<P("INPUT", 1), P("SRAM", 1)>>) }
    [] i = 5 ->
       { Model(own, own, "CHAN_WIRE", TRUE, <<P("INPUT", 1), P("OUTPUT", 1)>>) }
    [] i = 6 ->
       { Model(own, own, "WIRE", TRUE, <<P("INPUT", 1), P("OUTPUT", 1)>>),
         Model(own, SharedName, "WIRE", TRUE, <<P("INPUT", 1), P("OUTPUT", 1)>>) }
    [] OTHER ->
       { Model(SharedName, own, "MUX", FALSE, <<P("OUTPUT", 1), P("SRAM", 1)>>) }

\* the model lists of the catalogs of n positions: each position holds one model
\* of its pool or stays empty
RECURSIVE ModelLists(_)
ModelLists(n) ==
  IF n = 0 THEN { <<>> }
  ELSE LET shorter == ModelLists(n - 1) IN
       shorter \cup { Append(s, m) : s \in shorter, m \in SlotPool(n) }

\* the catalogs check_circuit_library is run on
Catalogs == { [models |-> s] : s \in ModelLists(MaxModels) }

(***************************************************************************)
(* The queries of CircuitLibrary that the checker uses.                    *)
(***************************************************************************)
\* CircuitModelId::INVALID()
INVALID == -1

\* the types check_circuit_library requires a default model for
DefaultTypes == <<"MUX", "CHAN_WIRE", "WIRE">>

num_models(lib) == Len(lib.models)

\* CircuitModelId(i) counts from 0
model_name(lib, id) == lib.models[id + 1].name

model_prefix(lib, id) == lib.models[id + 1].prefix

model_type(lib, id) == lib.models[id + 1].type

\* the ids of the models of a type, in catalog order, from position `from` on
RECURSIVE models_by_type_from(_, _, _)
models_by_type_from(lib, type, from) ==
  IF from >= num_models(lib) THEN <<>>
  ELSE (IF model_type(lib, from) = type THEN <<from>> ELSE <<>>)
       \o models_by_type_from(lib, type, from + 1)

models_by_type(lib, type) == models_by_type_from(lib, type, 0)

\* the ports of a model that have a type, in port order; global ports are left
\* out when ignore_global_port is set
model_ports_by_type(lib, id, type, ignore_global_port) ==
  SelectSeq(lib.models[id + 1].ports,
            LAMBDA p : p.type = type /\ ~(ignore_global_port /\ p.is_global))

\* every port of the library, each with the id of its model
RECURSIVE ports_from(_, _)
ports_from(lib, from) ==
  IF from >= num_models(lib) THEN <<>>
  ELSE [k \in 1..Len(lib.models[from + 1].ports) |->
          [model |-> from, port |-> lib.models[from + 1].ports[k]]]
       \o ports_from(lib, from + 1)

ports(lib) == ports_from(lib, 0)

is_input_port(p) == p.type = "INPUT"

\* the first model of the type that is flagged default, or INVALID
default_model(lib, type) ==
  LET flagged == SelectSeq(models_by_type(lib, type),
                           LAMBDA id : lib.models[id + 1].is_default)
  IN IF flagged = <<>> THEN INVALID ELSE flagged[1]

\* one ERROR line of vpr_printf: which message, about which model(s) and type
Diag(msg, m, n, t) == [msg |-> msg, m |-> m, n |-> n, t |-> t]

(***************************************************************************)
(* The checks of check_circuit_library.cpp.  Each returns the ERROR lines  *)
(* it prints, in the order it prints them; the size_t it returns is their  *)
(* number, since every vpr_printf of a check is followed by num_err++.     *)
(***************************************************************************)
\* inner loop of check_circuit_library_unique_names: j from i + 1
RECURSIVE unique_names_inner(_, _, _)
unique_names_inner(lib, i, j) ==
  IF ~(j < num_models(lib)) THEN <<>>
  ELSE (IF model_name(lib, i) # model_name(lib, j)
        THEN <<>>
        ELSE <<Diag("same_name", i, j, "")>>)
       \o unique_names_inner(lib, i, j + 1)

\* variant: the inner loop starts at i, so a model is compared with itself
RECURSIVE unique_names_outer_from_self(_, _)
unique_names_outer_from_self(lib, i) ==
  IF ~(i < num_models(lib)) THEN <<>>
  ELSE (IF i = num_models(lib) - 1
        THEN <<>>
        ELSE unique_names_inner(lib, i, i))
       \o unique_names_outer_from_self(lib, i + 1)

\* outer loop of check_circuit_library_unique_names: the last element is skipped
\* (for an empty library i < 0 never holds, so the size_t wrap of
\* num_models() - 1 is never compared)
RECURSIVE unique_names_outer(_, _)
unique_names_outer(lib, i) ==
  IF ~(i < num_models(lib)) THEN <<>>
  ELSE (IF i = num_models(lib) - 1
        THEN <<>>
        ELSE unique_names_inner(lib, i, i + 1))
       \o unique_names_outer(lib, i + 1)

check_circuit_library_unique_names(lib) == unique_names_outer(lib, 0)

RECURSIVE unique_prefix_inner(_, _, _)
unique_prefix_inner(lib, i, j) ==
  IF ~(j < num_models(lib)) THEN <<>>
  ELSE (IF model_prefix(lib, i) # model_prefix(lib, j)
        THEN <<>>
        ELSE <<Diag("same_prefix", i, j, "")>>)
       \o unique_prefix_inner(lib, i, j + 1)

RECURSIVE unique_prefix_outer(_, _)
unique_prefix_outer(lib, i) ==
  IF ~(i < num_models(lib)) THEN <<>>
  ELSE (IF i = num_models(lib) - 1
        THEN <<>>
        ELSE unique_prefix_inner(lib, i, i + 1))
       \o unique_prefix_outer(lib, i + 1)

check_circuit_library_unique_prefix(lib) == unique_prefix_outer(lib, 0)

check_circuit_model_required(lib, circuit_model_type_to_check) ==
  IF Len(models_by_type(lib, circuit_model_type_to_check)) = 0
  THEN <<Diag("model_required", INVALID, INVALID, circuit_model_type_to_check)>>
  ELSE <<>>

\* variant: the loop breaks at the first missing port type
RECURSIVE check_one_circuit_model_port_required_break(_, _, _)
check_one_circuit_model_port_required_break(lib, circuit_model, port_types_to_check) ==
  IF port_types_to_check = <<>> THEN <<>>
  ELSE IF Len(model_ports_by_type(lib, circuit_model,
                                  Head(port_types_to_check), FALSE)) = 0
       THEN <<Diag("no_port", circuit_model, INVALID, Head(port_types_to_check))>>
       ELSE check_one_circuit_model_port_required_break(lib, circuit_model,
                                                        Tail(port_types_to_check))

\* the loop of check_one_circuit_model_port_required over port_types_to_check
RECURSIVE check_one_circuit_model_port_required(_, _, _)
check_one_circuit_model_port_required(lib, circuit_model, port_types_to_check) ==
  IF port_types_to_check = <<>> THEN <<>>
  ELSE (IF Len(model_ports_by_type(lib, circuit_model,
                                   Head(port_types_to_check), FALSE)) = 0
        THEN <<Diag("no_port", circuit_model, INVALID, Head(port_types_to_check))>>
        ELSE <<>>)
       \o check_one_circuit_model_port_required(lib, circuit_model,
                                                Tail(port_types_to_check))

\* the loop of check_circuit_model_port_required over the models of the type
RECURSIVE port_required_over(_, _, _)
port_required_over(lib, ids, port_types_to_check) ==
  IF ids = <<>> THEN <<>>
  ELSE check_one_circuit_model_port_required(lib, Head(ids), port_types_to_check)
       \o port_required_over(lib, Tail(ids), port_types_to_check)

\* variant: with no model of the type, every required port type is reported
check_circuit_model_port_required_of_absent(lib, circuit_model_type_to_check, port_types_to_check) ==
  IF models_by_type(lib, circuit_model_type_to_check) = <<>>
  THEN [k \in 1..Len(port_types_to_check) |->
          Diag("no_port", INVALID, INVALID, port_types_to_check[k])]
  ELSE port_required_over(lib, models_by_type(lib, circuit_model_type_to_check),
                          port_types_to_check)

check_circuit_model_port_required(lib, circuit_model_type_to_check, port_types_to_check) ==
  port_required_over(lib, models_by_type(lib, circuit_model_type_to_check),
                     port_types_to_check)

\* first loop of check_circuit_library_ports: global ports are input ports
check_global_ports(lib) ==
  LET bad == SelectSeq(ports(lib),
                       LAMBDA e : e.port.is_global /\ ~is_input_port(e.port))
  IN [k \in 1..Len(bad) |->
        Diag("global_not_input", bad[k].model, INVALID, bad[k].port.type)]

\* variant: a port is counted once for each of is_set, is_reset and
\* is_config_enable
check_set_reset_ports_per_flag(lib) ==
  LET flagged(which) ==
        SelectSeq(ports(lib),
                  LAMBDA e : ~e.port.is_global
                             /\ CASE which = 1 -> e.port.is_set
                                   [] which = 2 -> e.port.is_reset
                                   [] OTHER -> e.port.is_config_enable)
      bad == flagged(1) \o flagged(2) \o flagged(3)
  IN [k \in 1..Len(bad) |->
        Diag("not_global", bad[k].model, INVALID, bad[k].port.type)]

\* second loop of check_circuit_library_ports: set/reset/config_enable ports
\* are global
check_set_reset_ports(lib) ==
  LET bad == SelectSeq(ports(lib),
                       LAMBDA e : (e.port.is_set \/ e.port.is_reset
                                   \/ e.port.is_config_enable)
                                  /\ ~e.port.is_global)
  IN [k \in 1..Len(bad) |->
        Diag("not_global", bad[k].model, INVALID, bad[k].port.type)]

check_circuit_library_ports(lib) ==
  check_global_ports(lib) \o check_set_reset_ports(lib)

\* variant: both an SRAM and an SCFF are required
check_sram_and_scff(lib) ==
  IF Len(models_by_type(lib, "SRAM")) = 0 \/ Len(models_by_type(lib, "SCFF")) = 0
  THEN <<Diag("sram_or_scff_required", INVALID, INVALID, "")>>
  ELSE <<>>

\* check 5 of check_circuit_library: at least one SRAM or SCFF
check_sram_or_scff(lib) ==
  IF Len(models_by_type(lib, "SRAM")) = 0 /\ Len(models_by_type(lib, "SCFF")) = 0
  THEN <<Diag("sram_or_scff_required", INVALID, INVALID, "")>>
  ELSE <<>>

iopad_port_types_required == <<"INPUT", "OUTPUT", "INOUT", "SRAM">>
mux_port_types_required == <<"INPUT", "OUTPUT", "SRAM">>
sram_port_types_required == <<"INPUT", "OUTPUT">>
scff_port_types_required == <<"CLOCK", "INPUT", "OUTPUT">>
ff_port_types_required == <<"CLOCK", "INPUT", "OUTPUT">>
lut_port_types_required == <<"SRAM", "INPUT", "OUTPUT">>

(***************************************************************************)
(* The port count-and-width checks of a single model.                      *)
(***************************************************************************)
check_one_circuit_model_port_size_required(lib, circuit_model, circuit_port, port_size_to_check) ==
  IF port_size_to_check # circuit_port.size
  THEN <<Diag("port_size", circuit_model, port_size_to_check, circuit_port.type)>>
  ELSE <<>>

\* variant: the loop over the selected ports ends at the first wrong size
RECURSIVE port_sizes_over_until_error(_, _, _, _)
port_sizes_over_until_error(lib, circuit_model, selected, port_size_to_check) ==
  IF selected = <<>> THEN <<>>
  ELSE LET first == check_one_circuit_model_port_size_required(
                      lib, circuit_model, Head(selected), port_size_to_check)
       IN IF first # <<>> THEN first
          ELSE port_sizes_over_until_error(lib, circuit_model, Tail(selected),
                                           port_size_to_check)

\* the loop of ..._port_type_and_size_required over the selected ports
RECURSIVE port_sizes_over(_, _, _, _)
port_sizes_over(lib, circuit_model, selected, port_size_to_check) ==
  IF selected = <<>> THEN <<>>
  ELSE check_one_circuit_model_port_size_required(lib, circuit_model, Head(selected),
                                                  port_size_to_check)
       \o port_sizes_over(lib, circuit_model, Tail(selected), port_size_to_check)

\* variant: the number of ports is not compared
port_type_and_size_required_no_count(lib, circuit_model, port_type_to_check, num_ports_to_check, port_size_to_check, include_global_ports) ==
  port_sizes_over(lib, circuit_model,
                  model_ports_by_type(lib, circuit_model, port_type_to_check,
                                      FALSE = include_global_ports),
                  port_size_to_check)

check_one_circuit_model_port_type_and_size_required(lib, circuit_model, port_type_to_check, num_ports_to_check, port_size_to_check, include_global_ports) ==
  LET selected == model_ports_by_type(lib, circuit_model, port_type_to_check,
                                      FALSE = include_global_ports)
  IN (IF num_ports_to_check # Len(selected)
      THEN <<Diag("port_count", circuit_model, num_ports_to_check, port_type_to_check)>>
      ELSE <<>>)
     \o port_sizes_over(lib, circuit_model, selected, port_size_to_check)

\* VTR_ASSERT(SPICE_MODEL_FF == model_type): called on FF models only
check_ff_circuit_model_ports(lib, circuit_model) ==
  check_one_circuit_model_port_type_and_size_required(lib, circuit_model, "INPUT",
                                                      3, 1, FALSE)
  \o check_one_circuit_model_port_type_and_size_required(lib, circuit_model, "CLOCK",
                                                         1, 1, FALSE)
  \o check_one_circuit_model_port_type_and_size_required(lib, circuit_model, "OUTPUT",
                                                         1, 1, FALSE)

\* VTR_ASSERT(SPICE_MODEL_SCFF == model_type): called on SCFF models only
check_scff_circuit_model_ports(lib, circuit_model) ==
  check_one_circuit_model_port_type_and_size_required(lib, circuit_model, "INPUT",
                                                      1, 1, FALSE)
  \o check_one_circuit_model_port_type_and_size_required(lib, circuit_model, "CLOCK",
                                                         1, 1, TRUE)
  \o check_one_circuit_model_port_type_and_size_required(lib, circuit_model, "OUTPUT",
                                                         2, 1, FALSE)

\* VTR_ASSERT(SPICE_MODEL_SRAM == model_type): called on SRAM models only
check_sram_circuit_model_ports(lib, circuit_model, check_blwl) ==
  check_one_circuit_model_port_type_and_size_required(lib, circuit_model, "OUTPUT",
                                                      1, 2, FALSE)
  \o (IF FALSE = check_blwl
      THEN <<>>
      ELSE check_one_circuit_model_port_type_and_size_required(lib, circuit_model,
                                                               "BL", 1, 1, FALSE)
           \o check_one_circuit_model_port_type_and_size_required(lib, circuit_model,
                                                                  "WL", 1, 1, FALSE))

(***************************************************************************)
(* check_circuit_library, one action per call it makes.                    *)
(***************************************************************************)
\* variant: the first check that counts an error ends the accumulated checks
Accumulate_stop_at_error(here, next, msgs) ==
  /\ pc = here
  /\ log' = log \o msgs
  /\ num_err' = num_err + Len(msgs)
  /\ counted' = Append(counted, [check |-> here, n |-> Len(msgs)])
  /\ pc' = IF msgs = <<>> THEN next ELSE "finish"
  /\ UNCHANGED circuit_lib
  /\ UNCHANGED <<bit_vars, gen_vars>>

\* num_err += <a check that printed msgs and returned their number>
Accumulate(here, next, msgs) ==
  /\ pc = here
  /\ log' = log \o msgs
  /\ num_err' = num_err + Len(msgs)
  /\ counted' = Append(counted, [check |-> here, n |-> Len(msgs)])
  /\ pc' = next
  /\ UNCHANGED circuit_lib
  /\ UNCHANGED <<bit_vars, gen_vars>>

\* variant: a missing default model is counted like any other error
check_required_default_circuit_model_counted(here, next, circuit_model_type) ==
  /\ pc = here
  /\ LET msgs == IF default_model(circuit_lib, circuit_model_type) = INVALID
                 THEN <<Diag("no_default", INVALID, INVALID, circuit_model_type)>>
                 ELSE <<>>
     IN /\ log' = log \o msgs
        /\ num_err' = num_err + Len(msgs)
        /\ counted' = Append(counted, [check |-> here, n |-> Len(msgs)])
  /\ pc' = next
  /\ UNCHANGED circuit_lib
  /\ UNCHANGED <<bit_vars, gen_vars>>

\* num_err += check_required_default_circuit_model(circuit_lib, type):
\* exit(1) right after the ERROR line when there is no default model
check_required_default_circuit_model(here, next, circuit_model_type) ==
  /\ pc = here
  /\ IF default_model(circuit_lib, circuit_model_type) = INVALID
     THEN /\ log' = Append(log, Diag("no_default", INVALID, INVALID, circuit_model_type))
          /\ pc' = "exited"
          /\ UNCHANGED <<num_err, counted>>
     ELSE /\ num_err' = num_err + 0
          /\ counted' = Append(counted, [check |-> here, n |-> 0])
          /\ pc' = next
          /\ UNCHANGED log
  /\ UNCHANGED circuit_lib
  /\ UNCHANGED <<bit_vars, gen_vars>>

UniqueNames ==
  Accumulate("unique_names", "unique_prefix",
             check_circuit_library_unique_names(circuit_lib))

UniquePrefix ==
  Accumulate("unique_prefix", "ports",
             check_circuit_library_unique_prefix(circuit_lib))

LibraryPorts ==
  Accumulate("ports", "iopad_required", check_circuit_library_ports(circuit_lib))

IopadRequired ==
  Accumulate("iopad_required", "iopad_ports",
             check_circuit_model_required(circuit_lib, "IOPAD"))

IopadPortRequired ==
  Accumulate("iopad_ports", "mux_required",
             check_circuit_model_port_required(circuit_lib, "IOPAD",
                                               iopad_port_types_required))

MuxRequired ==
  Accumulate("mux_required", "mux_ports",
             check_circuit_model_required(circuit_lib, "MUX"))

MuxPortRequired ==
  Accumulate("mux_ports", "sram_or_scff",
             check_circuit_model_port_required(circuit_lib, "MUX",
                                               mux_port_types_required))

SramOrScffRequired ==
  Accumulate("sram_or_scff", "sram_ports", check_sram_or_scff(circuit_lib))

SramPortRequired ==
  Accumulate("sram_ports", "scff_ports",
             check_circuit_model_port_required(circuit_lib, "SRAM",
                                               sram_port_types_required))

ScffPortRequired ==
  Accumulate("scff_ports", "ff_ports",
             check_circuit_model_port_required(circuit_lib, "SCFF",
                                               scff_port_types_required))

FFPortRequired ==
  Accumulate("ff_ports", "lut_ports",
             check_circuit_model_port_required(circuit_lib, "FF",
                                               ff_port_types_required))

LutPortRequired ==
  Accumulate("lut_ports", "default_mux",
             check_circuit_model_port_required(circuit_lib, "LUT",
                                               lut_port_types_required))

DefaultMux ==
  check_required_default_circuit_model("default_mux", "default_chan_wire", "MUX")

DefaultChanWire ==
  check_required_default_circuit_model("default_chan_wire", "default_wire", "CHAN_WIRE")

\* variant: the last call checks CHAN_WIRE again
DefaultWire_chan_wire_again ==
  check_required_default_circuit_model("default_wire", "finish", "CHAN_WIRE")

DefaultWire ==
  check_required_default_circuit_model("default_wire", "finish", "WIRE")

\* the "Finished checking circuit library with %d errors!" line, then exit(1)
\* when there are errors and return otherwise
Finish ==
  /\ pc = "finish"
  /\ log' = Append(log, Diag("finished", INVALID, num_err, ""))
  /\ pc' = IF 0 < num_err THEN "exited" ELSE "returned"
  /\ UNCHANGED <<circuit_lib, num_err, counted>>
  /\ UNCHANGED <<bit_vars, gen_vars>>

\* the variables of the global-port binder while it is not running
GlobIdle ==
  /\ module_manager = [module_names |-> <<>>, global_ports |-> <<>>,
                       gpio_ports |-> <<>>, input_ports |-> <<>>]
  /\ global_ports = <<>>
  /\ benchmark_clock_port_names = <<>>
  /\ glob_pc = "idle"
  /\ glob_i = 0

\* the variables of the I/O binder while it is not running
IoIdle ==
  /\ L_logical_blocks = <<>>
  /\ L_blocks = <<>>
  /\ io_used = <<>>
  /\ io_pc = "idle"
  /\ io_i = 0

\* the netlist writer while the library is checked or a callee runs alone
TopIdle == top_pc = "idle"

\* the bitstream variables while the library is checked
BitIdle ==
  /\ bitstream_manager = [block_parent |-> <<>>, block_name |-> <<>>, flip |-> FALSE]
  /\ top_module_name = ""
  /\ fabric_bitstream = <<>>
  /\ bit_pc = "idle"
  /\ bit_i = 0
  /\ fp = <<>>

Init ==
  /\ circuit_lib \in Catalogs
  /\ pc = "unique_names"
  /\ num_err = 0
  /\ log = <<>>
  /\ counted = <<>>
  /\ BitIdle
  /\ GlobIdle
  /\ IoIdle
  /\ TopIdle

Next ==
  \/ UniqueNames
  \/ UniquePrefix
  \/ LibraryPorts
  \/ IopadRequired
  \/ IopadPortRequired
  \/ MuxRequired
  \/ MuxPortRequired
  \/ SramOrScffRequired
  \/ SramPortRequired
  \/ ScffPortRequired
  \/ FFPortRequired
  \/ LutPortRequired
  \/ DefaultMux
  \/ DefaultChanWire
  \/ DefaultWire
  \/ Finish

Spec == Init /\ [][Next]_vars

(***************************************************************************)
(* The port count-and-width checks, called one at a time on a model.       *)
(***************************************************************************)
\* most calls of a run
MaxCalls == 2

\* the models the checks are called on
PortCheckModels ==
  { Model("ff", "ff", "FF", FALSE, FFPorts),
    Model("ff", "ff", "FF", FALSE,
          <<P("INPUT", 2), P("INPUT", 2), P("CLOCK", 1), P("OUTPUT", 1)>>),
    Model("ff", "ff", "FF", FALSE,
          <<P("INPUT", 1), P("INPUT", 1), P("INPUT", 1), Port("CLOCK", 1, TRUE, {}),
            P("OUTPUT", 1)>>),
    Model("scff", "scff", "SCFF", FALSE, ScffPorts),
    Model("scff", "scff", "SCFF", FALSE,
          <<Port("CLOCK", 1, TRUE, {}), P("INPUT", 1), P("OUTPUT", 1), P("OUTPUT", 1)>>),
    Model("scff", "scff", "SCFF", FALSE,
          <<Port("CLOCK", 2, TRUE, {}), P("CLOCK", 1), Port("INPUT", 2, TRUE, {}),
            P("INPUT", 1), P("OUTPUT", 1)>>),
    Model("sram", "sram", "SRAM", FALSE, SramPorts),
    Model("sram", "sram", "SRAM", FALSE, <<P("INPUT", 1), P("OUTPUT", 1)>>),
    Model("sram", "sram", "SRAM", FALSE,
          <<P("INPUT", 1), P("OUTPUT", 2), P("BL", 1), P("WL", 2)>>) }

\* the port types, numbers of ports and port sizes the check is called with
CheckedPortTypes == {"INPUT", "OUTPUT", "CLOCK"}
CheckedCounts == 1..3
CheckedSizes == 1..2

\* what a call leaves: the ERROR lines in the log, the returned number kept
CallReturns(call, msgs) ==
  /\ log' = log \o msgs
  /\ counted' = Append(counted, [call EXCEPT !.n = Len(msgs)])
  /\ UNCHANGED <<circuit_lib, pc, num_err>>
  /\ UNCHANGED <<bit_vars, gen_vars>>

\* a call, before it returns; a call of the SRAM check keeps its check_blwl in
\* the field include_global
Call(check, model, type, count, size, include_global) ==
  [check |-> check, model |-> model, type |-> type, count |-> count, size |-> size,
   include_global |-> include_global, n |-> 0]

\* a call of check_one_circuit_model_port_type_and_size_required
CheckPortTypeAndSize ==
  /\ pc = "port_checks"
  /\ Len(counted) < MaxCalls
  /\ \E circuit_model \in 0..(num_models(circuit_lib) - 1) :
       \E port_type_to_check \in CheckedPortTypes :
         \E num_ports_to_check \in CheckedCounts :
           \E port_size_to_check \in CheckedSizes :
             \E include_global_ports \in BOOLEAN :
               CallReturns(
                 Call("port_type_and_size", circuit_model, port_type_to_check,
                      num_ports_to_check, port_size_to_check, include_global_ports),
                 check_one_circuit_model_port_type_and_size_required(
                   circuit_lib, circuit_model, port_type_to_check, num_ports_to_check,
                   port_size_to_check, include_global_ports))

\* a call of check_ff_circuit_model_ports on an FF model
CheckFFModelPorts ==
  /\ pc = "port_checks"
  /\ Len(counted) < MaxCalls
  /\ \E circuit_model \in 0..(num_models(circuit_lib) - 1) :
       /\ "FF" = model_type(circuit_lib, circuit_model)
       /\ CallReturns(Call("ff_model_ports", circuit_model, "", 0, 0, FALSE),
                      check_ff_circuit_model_ports(circuit_lib, circuit_model))

\* a call of check_scff_circuit_model_ports on an SCFF model
CheckScffModelPorts ==
  /\ pc = "port_checks"
  /\ Len(counted) < MaxCalls
  /\ \E circuit_model \in 0..(num_models(circuit_lib) - 1) :
       /\ "SCFF" = model_type(circuit_lib, circuit_model)
       /\ CallReturns(Call("scff_model_ports", circuit_model, "", 0, 0, FALSE),
                      check_scff_circuit_model_ports(circuit_lib, circuit_model))

\* a call of check_sram_circuit_model_ports on an SRAM model
CheckSramModelPorts ==
  /\ pc = "port_checks"
  /\ Len(counted) < MaxCalls
  /\ \E circuit_model \in 0..(num_models(circuit_lib) - 1) :
       \E check_blwl \in BOOLEAN :
         /\ "SRAM" = model_type(circuit_lib, circuit_model)
         /\ CallReturns(Call("sram_model_ports", circuit_model, "", 0, 0, check_blwl),
                        check_sram_circuit_model_ports(circuit_lib, circuit_model,
                                                       check_blwl))

InitPortChecks ==
  /\ circuit_lib \in { [models |-> <<m>>] : m \in PortCheckModels }
  /\ pc = "port_checks"
  /\ num_err = 0
  /\ log = <<>>
  /\ counted = <<>>
  /\ BitIdle
  /\ GlobIdle
  /\ IoIdle
  /\ TopIdle

NextPortChecks ==
  \/ CheckPortTypeAndSize
  \/ CheckFFModelPorts
  \/ CheckScffModelPorts
  \/ CheckSramModelPorts

SpecPortChecks == InitPortChecks /\ [][NextPortChecks]_vars

(***************************************************************************)
(* The bitstream manager and the load of the fabric bitstream.             *)
(***************************************************************************)
\* ConfigBlockId::INVALID(): the parent of the root block
NO_BLOCK == 0

\* generate_fpga_top_module_name(): the name of the top module
fpga_top_module_name == "fpga_top"

\* the instance name of the fabric in the pre-configured top module
formal_verification_top_module_uut_name == "U0_formal_verification"

\* generate_configuration_chain_data_out_name()
configuration_chain_data_out_name == "ccff_out"

\* the name of a block below the root
BlockName(b) == <<"top", "grid", "logic_block", "mem", "mem_inner", "mem_cell">>[b]

\* the block trees of n blocks: block 1 is a root, a later block has any
\* earlier one for its parent, and the last block may be a root of its own
\* (the manager does not keep its blocks under one root)
ParentMaps(n) ==
  { f \in [1..n -> 0..n] :
      /\ f[1] = NO_BLOCK
      /\ \A b \in 2..n : f[b] < b /\ (f[b] = NO_BLOCK => b = n) }

\* the bits a block owns are indexed from 0
BitIndices == 0..1

\* a ConfigBitId stands for the bit at an index of its parent block
ConfigBitIds(n) == [block : 1..n, index : BitIndices]

\* the bitstream managers: a tree, the root's name and the stored values
BitstreamManagers ==
  { [block_parent |-> f,
     block_name |-> [b \in 1..Len(f) |-> IF b = 1 THEN root ELSE BlockName(b)],
     flip |-> flip] :
      f \in UNION { ParentMaps(n) : n \in 1..MaxBlocks },
      root \in {fpga_top_module_name, "another_top"},
      flip \in BOOLEAN }

\* the sequences over S of length at most n
RECURSIVE SeqsUpTo(_, _)
SeqsUpTo(S, n) ==
  IF n = 0 THEN { <<>> }
  ELSE LET shorter == SeqsUpTo(S, n - 1) IN
       shorter \cup { Append(s, x) : s \in shorter, x \in S }

bit_parent_block(bm, bit) == bit.block

bit_index_in_parent_block(bm, bit) == bit.index

\* the stored value of a bit: 0 or 1
bit_value(bm, bit) ==
  IF bm.flip THEN (bit.block + bit.index + 1) % 2 ELSE (bit.block + bit.index) % 2

block_name(bm, block) == bm.block_name[block]

\* the walk from a block up to the root: the block first, the root last
RECURSIVE block_walk_up(_, _)
block_walk_up(bm, block) ==
  IF bm.block_parent[block] = NO_BLOCK THEN <<block>>
  ELSE <<block>> \o block_walk_up(bm, bm.block_parent[block])

Reverse(s) == [k \in 1..Len(s) |-> s[Len(s) + 1 - k]]

\* the blocks from the root down to the block
find_bitstream_manager_block_hierarchy(bm, block) == Reverse(block_walk_up(bm, block))

\* BasicPort(name, lsb, msb)
BasicPort(name, lsb, msb) == [name |-> name, lsb |-> lsb, msb |-> msb]

get_width(port) == port.msb - port.lsb + 1

\* a line of the Verilog stream
Emit(kind, port, values) == [kind |-> kind, port |-> port, values |-> values]

print_verilog_comment(text) == Emit("comment", BasicPort(<<text>>, 0, 0), <<>>)

\* one constant assignment to the pins of a port
print_verilog_wire_constant_values(port, values) == Emit("constant", port, values)

\* bit_hierarchy_path += "." + block_name(temp_block), for every block left
RECURSIVE append_block_names(_, _, _)
append_block_names(bm, path, block_hierarchy) ==
  IF block_hierarchy = <<>> THEN path
  ELSE append_block_names(bm,
                          path \o <<".">> \o <<block_name(bm, Head(block_hierarchy))>>,
                          Tail(block_hierarchy))

\* variant: the first block of the hierarchy is not dropped
bit_hierarchy_path_with_root(bm, block_hierarchy) ==
  append_block_names(bm, <<formal_verification_top_module_uut_name>>, block_hierarchy)
  \o <<".">> \o <<configuration_chain_data_out_name>>

\* the path of the configuration wire of a bit: the instance name, the blocks
\* of the hierarchy after the first, the data-out name, each joined by "."
bit_hierarchy_path(bm, block_hierarchy) ==
  append_block_names(bm, <<formal_verification_top_module_uut_name>>,
                     Tail(block_hierarchy))
  \o <<".">> \o <<configuration_chain_data_out_name>>

\* variant: the name of the first block is not compared
root_is_top_module_unchecked(bm, module_name, block_hierarchy) == TRUE

\* the VTR_ASSERT of the loop body: the first block of the hierarchy is named
\* as the top module
root_is_top_module(bm, module_name, block_hierarchy) ==
  module_name = block_name(bm, block_hierarchy[1])

\* the port and the values the loop body hands to the writer for a bit
config_port_of(bm, config_bit_id) ==
  BasicPort(bit_hierarchy_path(bm,
              find_bitstream_manager_block_hierarchy(bm, bit_parent_block(bm, config_bit_id))),
            bit_index_in_parent_block(bm, config_bit_id),
            bit_index_in_parent_block(bm, config_bit_id))

default_values_of(bm, config_bit_id) ==
  [k \in 1..get_width(config_port_of(bm, config_bit_id)) |-> bit_value(bm, config_bit_id)]

\* the comment that opens the block
BeginLoadBitstream ==
  /\ bit_pc = "begin"
  /\ fp' = Append(fp, print_verilog_comment("begin_load_bitstream"))
  /\ bit_pc' = "loop"
  /\ UNCHANGED <<bitstream_manager, top_module_name, fabric_bitstream, bit_i>>
  /\ UNCHANGED <<lib_vars, gen_vars>>

\* variant: a bit equal to the one before it is not written again
LoadBit_skip_repeated ==
  /\ bit_pc = "loop"
  /\ bit_i < Len(fabric_bitstream)
  /\ LET config_bit_id == fabric_bitstream[bit_i + 1]
         block_hierarchy ==
           find_bitstream_manager_block_hierarchy(
             bitstream_manager, bit_parent_block(bitstream_manager, config_bit_id))
     IN IF top_module_name # block_name(bitstream_manager, block_hierarchy[1])
        THEN /\ bit_pc' = "fault"
             /\ UNCHANGED <<fp, bit_i>>
        ELSE /\ fp' = IF bit_i > 0 /\ fabric_bitstream[bit_i] = config_bit_id
                      THEN fp
                      ELSE Append(fp, print_verilog_wire_constant_values(
                                        config_port_of(bitstream_manager, config_bit_id),
                                        default_values_of(bitstream_manager, config_bit_id)))
             /\ bit_i' = bit_i + 1
             /\ UNCHANGED bit_pc
  /\ UNCHANGED <<bitstream_manager, top_module_name, fabric_bitstream>>
  /\ UNCHANGED <<lib_vars, gen_vars>>

\* one iteration of the loop over fabric_bitstream: VTR_ASSERT on the name of
\* the first block of the hierarchy, then one constant assignment
LoadBit ==
  /\ bit_pc = "loop"
  /\ bit_i < Len(fabric_bitstream)
  /\ LET config_bit_id == fabric_bitstream[bit_i + 1]
         block_hierarchy ==
           find_bitstream_manager_block_hierarchy(
             bitstream_manager, bit_parent_block(bitstream_manager, config_bit_id))
     IN IF ~root_is_top_module(bitstream_manager, top_module_name, block_hierarchy)
        THEN /\ bit_pc' = "fault"
             /\ UNCHANGED <<fp, bit_i>>
        ELSE /\ fp' = Append(fp, print_verilog_wire_constant_values(
                                   config_port_of(bitstream_manager, config_bit_id),
                                   default_values_of(bitstream_manager, config_bit_id)))
             /\ bit_i' = bit_i + 1
             /\ UNCHANGED bit_pc
  /\ UNCHANGED <<bitstream_manager, top_module_name, fabric_bitstream>>
  /\ UNCHANGED <<lib_vars, gen_vars>>

\* the comment that closes the block
EndLoadBitstream ==
  /\ bit_pc = "loop"
  /\ bit_i = Len(fabric_bitstream)
  /\ fp' = Append(fp, print_verilog_comment("end_load_bitstream"))
  /\ bit_pc' = "done"
  /\ UNCHANGED <<bitstream_manager, top_module_name, fabric_bitstream, bit_i>>
  /\ UNCHANGED <<lib_vars, gen_vars>>

\* the library variables while the bitstream is loaded
LibIdle ==
  /\ circuit_lib = [models |-> <<>>]
  /\ pc = "idle"
  /\ num_err = 0
  /\ log = <<>>
  /\ counted = <<>>

InitBitstream ==
  /\ bitstream_manager \in BitstreamManagers
  /\ top_module_name = fpga_top_module_name
  /\ fabric_bitstream \in
       SeqsUpTo(ConfigBitIds(Len(bitstream_manager.block_parent)), MaxBits)
  /\ bit_pc = "begin"
  /\ bit_i = 0
  /\ fp = <<>>
  /\ LibIdle
  /\ GlobIdle
  /\ IoIdle
  /\ TopIdle

NextBitstream ==
  \/ BeginLoadBitstream
  \/ LoadBit
  \/ EndLoadBitstream

SpecBitstream == InitBitstream /\ [][NextBitstream]_vars

(***************************************************************************)
(* The module manager, the global circuit ports and the netlist writer.    *)
(***************************************************************************)
\* most global ports of the top module
MaxGlobalPorts == 2
\* most clocks of the benchmark
MaxClocks == 2
\* most logical blocks of the benchmark
MaxIoBlocks == 3

\* the suffix of the name of a benchmark port in the generated module
formal_verification_top_module_port_postfix == "_fm"

\* the suffix of the name of the generated module
formal_verification_top_module_postfix == "_top_formal_verification"

\* the value unused pads are tied to
verilog_default_signal_init_value == 0

\* BasicPort(name, width): the pins 0 .. width - 1
BasicPortOfWidth(name, width) == BasicPort(name, 0, width - 1)

get_name(port) == port.name

\* BasicPort::pins(): the pin indices from lsb to msb
pins(port) == [k \in 1..get_width(port) |-> port.lsb + k - 1]

\* BasicPort::set_width(lsb, msb)
set_width(port, lsb, msb) == BasicPort(port.name, lsb, msb)

\* std::vector<size_t>(n, value)
Replicate(n, value) == [k \in 1..n |-> value]

\* one connection of a port to the port that drives it
print_verilog_wire_connection(output_port, input_port, inverted) ==
  Emit(IF inverted THEN "inverted_connection" ELSE "connection",
       output_port, <<input_port>>)

\* fp << std::endl
print_endl == Emit("endl", BasicPort(<<>>, 0, 0), <<>>)

\* a global circuit port of the library, with the attributes the binder reads
CircuitPort(lib_name, size, type, is_prog, default_value) ==
  [lib_name |-> lib_name, size |-> size, type |-> type, is_prog |-> is_prog,
   default_value |-> default_value]

\* the circuit ports of the library the binder is run on; CircuitPortId k
\* is the k-th of them
GlobalCircuitPorts ==
  << CircuitPort(<<"clk">>, 1, "CLOCK", FALSE, 0),
     CircuitPort(<<"clk">>, 2, "CLOCK", FALSE, 0),
     CircuitPort(<<"prog_clk">>, 1, "CLOCK", TRUE, 0),
     CircuitPort(<<"rst">>, 4, "INPUT", FALSE, 1),
     CircuitPort(<<"set">>, 2, "INPUT", FALSE, 0),
     CircuitPort(<<"clk">>, 1, "INPUT", FALSE, 1) >>

\* the library of the netlist writer: no model matters, only the ports
WriterLibrary == [models |-> <<>>, ports_by_id |-> GlobalCircuitPorts]

\* the lists of global circuit ports handed to the binder
GlobalPortIdLists ==
  LET ids == 1..Len(GlobalCircuitPorts) IN
  { s \in SeqsUpTo(ids, 2) : \A i, j \in 1..Len(s) : i # j => s[i] # s[j] }
  \cup { [k \in ids |-> k], [k \in ids |-> Len(GlobalCircuitPorts) + 1 - k] }

port_lib_name(lib, id) == lib.ports_by_id[id].lib_name
port_size(lib, id) == lib.ports_by_id[id].size
port_type(lib, id) == lib.ports_by_id[id].type
port_is_prog(lib, id) == lib.ports_by_id[id].is_prog
port_default_value(lib, id) == lib.ports_by_id[id].default_value

\* the global ports the top module may have
ModuleGlobalPortPool ==
  { BasicPortOfWidth(<<"clk">>, 1), BasicPortOfWidth(<<"clk">>, 2),
    BasicPortOfWidth(<<"prog_clk">>, 1), BasicPortOfWidth(<<"rst">>, 4),
    BasicPortOfWidth(<<"set">>, 2) }

\* a module manager that holds the top module with the given ports
ModuleManager(names, global, gpio, input) ==
  [module_names |-> names, global_ports |-> global, gpio_ports |-> gpio,
   input_ports |-> input]

\* ModuleManager::find_module: the id of the module of that name
find_module(mm, name) ==
  IF \E k \in 1..Len(mm.module_names) : mm.module_names[k] = name
  THEN CHOOSE k \in 1..Len(mm.module_names) :
         /\ mm.module_names[k] = name
         /\ \A j \in 1..(k - 1) : mm.module_names[j] # name
  ELSE INVALID

valid_module_id(mm, id) == id \in 1..Len(mm.module_names)

\* ModuleManager::module_ports_by_type of the top module
module_ports_by_type(mm, type) ==
  CASE type = "MODULE_GLOBAL_PORT" -> mm.global_ports
    [] type = "MODULE_GPIO_PORT" -> mm.gpio_ports
    [] type = "MODULE_INPUT_PORT" -> mm.input_ports

\* the name of the k-th clock of the benchmark
ClockName(k) == <<"clk_a", "clk_b", "clk_c", "clk_d">>[k]

\* the lists of clock names a benchmark may have
ClockNameLists == { [k \in 1..n |-> ClockName(k)] : n \in 0..MaxClocks }

(***************************************************************************)
(* print_verilog_preconfig_top_module_connect_global_ports.                *)
(***************************************************************************)
\* variant: the last circuit port of the name is linked
RECURSIVE linked_circuit_port_id_last(_, _, _)
linked_circuit_port_id_last(lib, module_global_port, ids) ==
  IF ids = <<>> THEN INVALID
  ELSE LET later == linked_circuit_port_id_last(lib, module_global_port, Tail(ids))
       IN IF later # INVALID THEN later
          ELSE IF get_name(module_global_port) # port_lib_name(lib, Head(ids))
               THEN INVALID
               ELSE Head(ids)

\* the inner loop over global_ports: the first circuit port whose library
\* name is the name of the module port
RECURSIVE linked_circuit_port_id(_, _, _)
linked_circuit_port_id(lib, module_global_port, ids) ==
  IF ids = <<>> THEN INVALID
  ELSE IF get_name(module_global_port) # port_lib_name(lib, Head(ids))
       THEN linked_circuit_port_id(lib, module_global_port, Tail(ids))
       ELSE Head(ids)

\* the loop over the names of the benchmark clocks, for one pin
RECURSIVE wire_pin_to_clocks(_, _, _)
wire_pin_to_clocks(module_global_port, pin, clock_port_names) ==
  IF clock_port_names = <<>> THEN <<>>
  ELSE <<print_verilog_wire_connection(
           BasicPort(get_name(module_global_port), pin, pin),
           BasicPortOfWidth(<<Head(clock_port_names),
                              formal_verification_top_module_port_postfix>>, 1),
           FALSE)>>
       \o wire_pin_to_clocks(module_global_port, pin, Tail(clock_port_names))

\* the loop over the pins of an operating clock port
RECURSIVE wire_pins_to_clocks(_, _, _)
wire_pins_to_clocks(module_global_port, pin_list, clock_port_names) ==
  IF pin_list = <<>> THEN <<>>
  ELSE wire_pin_to_clocks(module_global_port, Head(pin_list), clock_port_names)
       \o wire_pins_to_clocks(module_global_port, Tail(pin_list), clock_port_names)

\* variant: every CLOCK port is taken for an operating clock
is_operating_clock_any(lib, id) == port_type(lib, id) = "CLOCK"

\* an operating clock: a CLOCK port that is not a programming clock
is_operating_clock(lib, id) ==
  port_type(lib, id) = "CLOCK" /\ FALSE = port_is_prog(lib, id)

\* variant: a port that is not an operating clock is tied off pin by pin
connect_global_port_per_bit(lib, module_global_port, linked, clock_port_names) ==
  IF is_operating_clock(lib, linked)
  THEN wire_pins_to_clocks(module_global_port, pins(module_global_port),
                           clock_port_names)
  ELSE [k \in 1..get_width(module_global_port) |->
          print_verilog_wire_constant_values(
            BasicPort(get_name(module_global_port), pins(module_global_port)[k],
                      pins(module_global_port)[k]),
            <<port_default_value(lib, linked)>>)]

\* what the body of the loop writes for a module port linked to a circuit port
connect_global_port(lib, module_global_port, linked, clock_port_names) ==
  IF is_operating_clock(lib, linked)
  THEN wire_pins_to_clocks(module_global_port, pins(module_global_port),
                           clock_port_names)
  ELSE <<print_verilog_wire_constant_values(
           module_global_port,
           Replicate(get_width(module_global_port), port_default_value(lib, linked)))>>

\* variant: the size of the linked port is not compared
global_port_asserts_hold_name_only(lib, module_global_port, linked) == INVALID # linked

\* the two VTR_ASSERTs of the body of the loop
global_port_asserts_hold(lib, module_global_port, linked) ==
  /\ INVALID # linked
  /\ get_width(module_global_port) = port_size(lib, linked)

\* the comment that opens the block
BeginConnectGlobalPorts ==
  /\ glob_pc = "begin"
  /\ fp' = Append(fp, print_verilog_comment("begin_connect_global_ports"))
  /\ glob_pc' = "loop"
  /\ UNCHANGED <<module_manager, global_ports, benchmark_clock_port_names, glob_i>>
  /\ UNCHANGED <<lib_vars, bit_state, io_vars, top_pc>>

\* one iteration of the loop over the global ports of the top module
ConnectGlobalPort ==
  /\ glob_pc = "loop"
  /\ glob_i < Len(module_ports_by_type(module_manager, "MODULE_GLOBAL_PORT"))
  /\ LET module_global_port ==
           module_ports_by_type(module_manager, "MODULE_GLOBAL_PORT")[glob_i + 1]
         linked == linked_circuit_port_id(circuit_lib, module_global_port, global_ports)
     IN IF global_port_asserts_hold(circuit_lib, module_global_port, linked)
        THEN /\ fp' = fp \o connect_global_port(circuit_lib, module_global_port, linked,
                                                benchmark_clock_port_names)
             /\ glob_i' = glob_i + 1
             /\ UNCHANGED glob_pc
        ELSE /\ glob_pc' = "fault"
             /\ UNCHANGED <<fp, glob_i>>
  /\ UNCHANGED <<module_manager, global_ports, benchmark_clock_port_names>>
  /\ UNCHANGED <<lib_vars, bit_state, io_vars, top_pc>>

\* the comment that closes the block and the empty line after it
EndConnectGlobalPorts ==
  /\ glob_pc = "loop"
  /\ glob_i = Len(module_ports_by_type(module_manager, "MODULE_GLOBAL_PORT"))
  /\ fp' = fp \o <<print_verilog_comment("end_connect_global_ports"), print_endl>>
  /\ glob_pc' = "done"
  /\ UNCHANGED <<module_manager, global_ports, benchmark_clock_port_names, glob_i>>
  /\ UNCHANGED <<lib_vars, bit_state, io_vars, top_pc>>

\* the library variables while the netlist is written
LibOfWriter ==
  /\ circuit_lib = WriterLibrary
  /\ pc = "idle"
  /\ num_err = 0
  /\ log = <<>>
  /\ counted = <<>>

InitGlobalPorts ==
  /\ module_manager \in
       { ModuleManager(<<fpga_top_module_name>>, g, <<>>, <<>>) :
           g \in SeqsUpTo(ModuleGlobalPortPool, MaxGlobalPorts) }
  /\ global_ports \in GlobalPortIdLists
  /\ benchmark_clock_port_names \in ClockNameLists
  /\ glob_pc = "begin"
  /\ glob_i = 0
  /\ LibOfWriter
  /\ BitIdle
  /\ IoIdle
  /\ TopIdle

NextGlobalPorts ==
  \/ BeginConnectGlobalPorts
  \/ ConnectGlobalPort
  \/ EndConnectGlobalPorts

SpecGlobalPorts == InitGlobalPorts /\ [][NextGlobalPorts]_vars

(***************************************************************************)
(* The benchmark: its logical blocks and where they are placed.            *)
(***************************************************************************)
\* a logical block; index is its position in the vector of logical blocks
LogicalBlock(name, type, is_clock, index) ==
  [name |-> name, type |-> type, is_clock |-> is_clock, index |-> index]

\* the name of the k-th logical block
IoBlockName(k) == <<"a", "b", "c", "d", "e", "f">>[k]

\* the pad indices the placement may give: 9 is beyond every port of PadWidths
PadIndexPool == {0, 2, 5, 9}

\* the widths of the datapath I/O port of the top module
PadWidths == {1, 3, 8}

\* the kinds and placements of one logical block: an input pad or an output
\* pad at a pad index, or a block that is no pad
BlockChoices ==
  { [type |-> t, pad |-> i] : t \in {"VPACK_INPAD", "VPACK_OUTPAD"}, i \in PadIndexPool }
  \cup { [type |-> "VPACK_COMB", pad |-> 0] }

\* the benchmarks of at most n logical blocks, each with its placement
RECURSIVE Benchmarks(_)
Benchmarks(n) ==
  IF n = 0 THEN { [blocks |-> <<>>, placement |-> <<>>] }
  ELSE LET shorter == Benchmarks(n - 1) IN
       shorter \cup
       { [blocks |-> Append(b.blocks,
                            LogicalBlock(IoBlockName(Len(b.blocks) + 1), c.type, FALSE,
                                         Len(b.blocks) + 1)),
          placement |-> Append(b.placement, c.pad)] :
           b \in { x \in shorter : Len(x.blocks) = n - 1 }, c \in BlockChoices }

\* the placement lookup: the pad index of a logical block
find_benchmark_io_index(io_lb, placement) == placement[io_lb.index]

\* the name of the datapath I/O port of the top module
gfpga_pad_name == <<"gfpga_pad">>

\* the datapath I/O ports the top module may have: none, one, or two
GpioPortLists ==
  { <<BasicPortOfWidth(gfpga_pad_name, w)>> : w \in PadWidths }
  \cup { <<>>,
         <<BasicPortOfWidth(gfpga_pad_name, 3), BasicPortOfWidth(<<"gfpga_pad_2">>, 3)>> }

(***************************************************************************)
(* print_verilog_preconfig_top_module_connect_ios.                         *)
(***************************************************************************)
\* only the pads of the benchmark are connected
is_io_block(lb) == ~((("VPACK_INPAD" # lb.type) /\ ("VPACK_OUTPAD" # lb.type)))

\* the comment that tells which pad a benchmark I/O is mapped to
io_mapping_comment(io_lb, module_mapped_io_port, io_index) ==
  Emit("comment",
       BasicPort(<<"blif_benchmark_inout", io_lb.name, "is_mapped_to">>
                 \o get_name(module_mapped_io_port) \o <<"[", ToString(io_index), "]">>,
                 0, 0),
       <<>>)

\* what the body of the first loop writes for a pad of the benchmark
connect_io_block(module_io_port, io_lb, io_index) ==
  LET module_mapped_io_port == set_width(module_io_port, io_index, io_index)
      benchmark_io_port ==
        BasicPortOfWidth(<<io_lb.name, formal_verification_top_module_port_postfix>>, 1)
  IN <<io_mapping_comment(io_lb, module_mapped_io_port, io_index),
       print_verilog_wire_connection(module_mapped_io_port, benchmark_io_port, FALSE)>>

\* variant: the constant is written to the whole port
tie_off_whole_port(module_io_port, io_index) ==
  <<print_verilog_wire_constant_values(
      module_io_port,
      Replicate(get_width(module_io_port), verilog_default_signal_init_value))>>

\* what the body of the second loop writes for an unused pad
tie_off_unused_pad(module_io_port, io_index) ==
  LET module_unused_io_port == set_width(module_io_port, io_index, io_index)
  IN <<print_verilog_wire_constant_values(
         module_unused_io_port,
         Replicate(get_width(module_unused_io_port), verilog_default_signal_init_value))>>

\* variant: the top module has at least one datapath I/O port
has_some_io_port(mm) == 1 <= Len(module_ports_by_type(mm, "MODULE_GPIO_PORT"))

\* VTR_ASSERT(1 == ...size()): the top module has one datapath I/O port
has_one_io_port(mm) == 1 = Len(module_ports_by_type(mm, "MODULE_GPIO_PORT"))

\* VTR_ASSERT, the vector io_used and the comment that opens the first loop
BeginConnectIos ==
  /\ io_pc = "begin"
  /\ IF has_one_io_port(module_manager)
     THEN LET module_io_port == module_ports_by_type(module_manager, "MODULE_GPIO_PORT")[1]
          IN /\ io_used' = Replicate(get_width(module_io_port), FALSE)
             /\ fp' = Append(fp, print_verilog_comment("link_benchmark_ios"))
             /\ io_pc' = "blocks"
     ELSE /\ io_pc' = "fault"
          /\ UNCHANGED <<fp, io_used>>
  /\ UNCHANGED <<L_logical_blocks, L_blocks, io_i>>
  /\ UNCHANGED <<lib_vars, bit_state, glob_vars, top_pc>>

\* variant: the pad of a connected block is not marked
ConnectIoBlock_no_mark ==
  /\ io_pc = "blocks"
  /\ io_i < Len(L_logical_blocks)
  /\ LET io_lb == L_logical_blocks[io_i + 1]
         module_io_port == module_ports_by_type(module_manager, "MODULE_GPIO_PORT")[1]
         io_index == find_benchmark_io_index(io_lb, L_blocks)
     IN IF ~is_io_block(io_lb)
        THEN /\ io_i' = io_i + 1
             /\ UNCHANGED <<fp, io_used, io_pc>>
        ELSE IF io_index < get_width(module_io_port)
        THEN /\ fp' = fp \o connect_io_block(module_io_port, io_lb, io_index)
             /\ io_i' = io_i + 1
             /\ UNCHANGED <<io_used, io_pc>>
        ELSE /\ io_pc' = "fault"
             /\ UNCHANGED <<fp, io_used, io_i>>
  /\ UNCHANGED <<L_logical_blocks, L_blocks>>
  /\ UNCHANGED <<lib_vars, bit_state, glob_vars, top_pc>>

\* variant: a pad that is already used is refused
ConnectIoBlock_refuse_used_pad ==
  /\ io_pc = "blocks"
  /\ io_i < Len(L_logical_blocks)
  /\ LET io_lb == L_logical_blocks[io_i + 1]
         module_io_port == module_ports_by_type(module_manager, "MODULE_GPIO_PORT")[1]
         io_index == find_benchmark_io_index(io_lb, L_blocks)
     IN IF ~is_io_block(io_lb)
        THEN /\ io_i' = io_i + 1
             /\ UNCHANGED <<fp, io_used, io_pc>>
        ELSE IF io_index < get_width(module_io_port) /\ ~io_used[io_index + 1]
        THEN /\ fp' = fp \o connect_io_block(module_io_port, io_lb, io_index)
             /\ io_used' = [io_used EXCEPT ![io_index + 1] = TRUE]
             /\ io_i' = io_i + 1
             /\ UNCHANGED io_pc
        ELSE /\ io_pc' = "fault"
             /\ UNCHANGED <<fp, io_used, io_i>>
  /\ UNCHANGED <<L_logical_blocks, L_blocks>>
  /\ UNCHANGED <<lib_vars, bit_state, glob_vars, top_pc>>

\* one iteration of the loop over the logical blocks
ConnectIoBlock ==
  /\ io_pc = "blocks"
  /\ io_i < Len(L_logical_blocks)
  /\ LET io_lb == L_logical_blocks[io_i + 1]
         module_io_port == module_ports_by_type(module_manager, "MODULE_GPIO_PORT")[1]
         io_index == find_benchmark_io_index(io_lb, L_blocks)
     IN IF ~is_io_block(io_lb)
        THEN /\ io_i' = io_i + 1
             /\ UNCHANGED <<fp, io_used, io_pc>>
        ELSE IF io_index < get_width(module_io_port)
        THEN /\ fp' = fp \o connect_io_block(module_io_port, io_lb, io_index)
             /\ io_used' = [io_used EXCEPT ![io_index + 1] = TRUE]
             /\ io_i' = io_i + 1
             /\ UNCHANGED io_pc
        ELSE /\ io_pc' = "fault"
             /\ UNCHANGED <<fp, io_used, io_i>>
  /\ UNCHANGED <<L_logical_blocks, L_blocks>>
  /\ UNCHANGED <<lib_vars, bit_state, glob_vars, top_pc>>

\* the empty line after the first loop and the comment that opens the second
BeginTieOff ==
  /\ io_pc = "blocks"
  /\ io_i = Len(L_logical_blocks)
  /\ fp' = fp \o <<print_endl, print_verilog_comment("wire_unused_ios")>>
  /\ io_pc' = "unused"
  /\ io_i' = 0
  /\ UNCHANGED <<L_logical_blocks, L_blocks, io_used>>
  /\ UNCHANGED <<lib_vars, bit_state, glob_vars, top_pc>>

\* one iteration of the loop over io_used
TieOffPad ==
  /\ io_pc = "unused"
  /\ io_i < Len(io_used)
  /\ LET module_io_port == module_ports_by_type(module_manager, "MODULE_GPIO_PORT")[1]
     IN IF TRUE = io_used[io_i + 1]
        THEN UNCHANGED fp
        ELSE fp' = fp \o tie_off_unused_pad(module_io_port, io_i)
  /\ io_i' = io_i + 1
  /\ UNCHANGED <<L_logical_blocks, L_blocks, io_used, io_pc>>
  /\ UNCHANGED <<lib_vars, bit_state, glob_vars, top_pc>>

\* the empty line that closes the block
EndConnectIos ==
  /\ io_pc = "unused"
  /\ io_i = Len(io_used)
  /\ fp' = Append(fp, print_endl)
  /\ io_pc' = "done"
  /\ UNCHANGED <<L_logical_blocks, L_blocks, io_used, io_i>>
  /\ UNCHANGED <<lib_vars, bit_state, glob_vars, top_pc>>

\* the variables of the global-port binder while the I/O binder runs alone:
\* only the ports of the top module matter
GlobOfIos ==
  /\ module_manager \in
       { ModuleManager(<<fpga_top_module_name>>, <<>>, g, <<>>) : g \in GpioPortLists }
  /\ global_ports = <<>>
  /\ benchmark_clock_port_names = <<>>
  /\ glob_pc = "idle"
  /\ glob_i = 0

InitIos ==
  /\ \E b \in Benchmarks(MaxIoBlocks) :
       /\ L_logical_blocks = b.blocks
       /\ L_blocks = b.placement
  /\ io_used = <<>>
  /\ io_pc = "begin"
  /\ io_i = 0
  /\ GlobOfIos
  /\ LibOfWriter
  /\ BitIdle
  /\ TopIdle

NextIos ==
  \/ BeginConnectIos
  \/ ConnectIoBlock
  \/ BeginTieOff
  \/ TieOffPad
  \/ EndConnectIos

SpecIos == InitIos /\ [][NextIos]_vars

(***************************************************************************)
(* print_verilog_preconfig_top_module: the sections of the netlist.        *)
(***************************************************************************)
\* the name of the benchmark
circuit_name == "bench"

\* a line of the stream that is no comment, connection or constant
print_line(kind, name) == Emit(kind, BasicPort(name, 0, 0), <<>>)

\* print_verilog_file_header, print_verilog_include_defines_preproc_file and
\* print_verilog_include_netlist
file_header_and_includes ==
  <<print_line("file_header", <<"title", circuit_name>>),
    print_line("include", <<"defines_preproc">>),
    print_line("include", <<"defines_simulation">>)>>

\* the declaration of one port of the generated module
generate_verilog_port(verilog_port_type, port) == Emit(verilog_port_type, port, <<>>)

\* port_type2type_map
port_type2type_map(type) ==
  IF type = "VPACK_INPAD" THEN "VERILOG_PORT_INPUT" ELSE "VERILOG_PORT_OUTPUT"

\* the loop of ..._ports over the logical blocks: a port for every pad
RECURSIVE benchmark_ports(_)
benchmark_ports(blocks) ==
  IF blocks = <<>> THEN <<>>
  ELSE (IF ~is_io_block(Head(blocks)) THEN <<>>
        ELSE <<generate_verilog_port(
                 port_type2type_map(Head(blocks).type),
                 BasicPortOfWidth(<<Head(blocks).name,
                                    formal_verification_top_module_port_postfix>>, 1))>>)
       \o benchmark_ports(Tail(blocks))

\* print_verilog_preconfig_top_module_ports
print_verilog_preconfig_top_module_ports(name, blocks) ==
  <<print_line("module", <<name, formal_verification_top_module_postfix>>)>>
  \o benchmark_ports(blocks)
  \o <<print_line("module_ports_end", <<>>), print_endl>>

\* the wire declarations of the ports of a list
wires_of(port_list) ==
  [k \in 1..Len(port_list) |-> generate_verilog_port("VERILOG_PORT_WIRE", port_list[k])]

\* variant: the wires of the datapath I/O ports come first
internal_wires_ios_first(mm) ==
  <<print_verilog_comment("ios_of_fpga_fabric")>>
  \o wires_of(module_ports_by_type(mm, "MODULE_GPIO_PORT")) \o <<print_endl>>
  \o <<print_verilog_comment("global_ports_of_fpga_fabric")>>
  \o wires_of(module_ports_by_type(mm, "MODULE_GLOBAL_PORT")) \o <<print_endl>>
  \o <<print_verilog_comment("configuration_protocols_of_fpga_fabric")>>
  \o wires_of(module_ports_by_type(mm, "MODULE_INPUT_PORT")) \o <<print_endl>>

\* print_verilog_preconfig_top_module_internal_wires
print_verilog_preconfig_top_module_internal_wires(mm) ==
  <<print_verilog_comment("global_ports_of_fpga_fabric")>>
  \o wires_of(module_ports_by_type(mm, "MODULE_GLOBAL_PORT")) \o <<print_endl>>
  \o <<print_verilog_comment("ios_of_fpga_fabric")>>
  \o wires_of(module_ports_by_type(mm, "MODULE_GPIO_PORT")) \o <<print_endl>>
  \o <<print_verilog_comment("configuration_protocols_of_fpga_fabric")>>
  \o wires_of(module_ports_by_type(mm, "MODULE_INPUT_PORT")) \o <<print_endl>>

\* print_verilog_preconfig_top_instance: the instance of the top module,
\* under the fixed instance name
print_verilog_preconfig_top_instance(mm, top_module) ==
  <<print_verilog_comment("fpga_top_level_module_to_be_capsulated"),
    Emit("instance", BasicPort(<<formal_verification_top_module_uut_name>>, 0, 0),
         <<mm.module_names[top_module]>>),
    print_endl>>

\* print_verilog_module_end
print_verilog_module_end(name) == print_line("endmodule", name)

\* the names of the clocks of the benchmark: its input pads that are clocks
find_benchmark_clock_port_name(blocks) ==
  LET clocks == SelectSeq(blocks, LAMBDA lb : lb.type = "VPACK_INPAD" /\ lb.is_clock)
  IN [k \in 1..Len(clocks) |-> clocks[k].name]

\* a step of the top function that only writes
TopWrites(here, next, lines) ==
  /\ top_pc = here
  /\ fp' = fp \o lines
  /\ top_pc' = next
  /\ UNCHANGED <<lib_vars, bit_state, glob_vars, io_vars>>

\* the file header and the two includes
PrintFileHeader == TopWrites("header", "ports", file_header_and_includes)

\* the declaration of the module and of its ports
PrintModulePorts ==
  TopWrites("ports", "wires",
            print_verilog_preconfig_top_module_ports(circuit_name, L_logical_blocks))

\* find_module, VTR_ASSERT(valid_module_id) and the internal wires
PrintInternalWires ==
  /\ top_pc = "wires"
  /\ LET top_module == find_module(module_manager, fpga_top_module_name)
     IN IF TRUE = valid_module_id(module_manager, top_module)
        THEN /\ fp' = fp \o print_verilog_preconfig_top_module_internal_wires(module_manager)
             /\ top_pc' = "instance"
        ELSE /\ top_pc' = "fault"
             /\ UNCHANGED fp
  /\ UNCHANGED <<lib_vars, bit_state, glob_vars, io_vars>>

\* the instance of the top module
PrintTopInstance ==
  TopWrites("instance", "global_ports",
            print_verilog_preconfig_top_instance(
              module_manager, find_module(module_manager, fpga_top_module_name)))

\* the clocks of the benchmark are found and the global-port binder is called
CallConnectGlobalPorts ==
  /\ top_pc = "global_ports"
  /\ glob_pc = "idle"
  /\ benchmark_clock_port_names' = find_benchmark_clock_port_name(L_logical_blocks)
  /\ glob_pc' = "begin"
  /\ UNCHANGED <<module_manager, global_ports, glob_i, top_pc, fp>>
  /\ UNCHANGED <<lib_vars, bit_state, io_vars>>

\* the global-port binder has returned and the I/O binder is called
CallConnectIos ==
  /\ top_pc = "global_ports"
  /\ glob_pc = "done"
  /\ io_pc = "idle"
  /\ io_pc' = "begin"
  /\ top_pc' = "ios"
  /\ UNCHANGED <<L_logical_blocks, L_blocks, io_used, io_i, fp>>
  /\ UNCHANGED <<lib_vars, bit_state, glob_vars>>

\* the I/O binder has returned and the bitstream is loaded
CallLoadBitstream ==
  /\ top_pc = "ios"
  /\ io_pc = "done"
  /\ bit_pc = "idle"
  /\ bit_pc' = "begin"
  /\ top_pc' = "bitstream"
  /\ UNCHANGED <<bitstream_manager, top_module_name, fabric_bitstream, bit_i, fp>>
  /\ UNCHANGED <<lib_vars, glob_vars, io_vars>>

\* the bitstream is loaded and the module is closed
PrintModuleEnd ==
  /\ bit_pc = "done"
  /\ TopWrites("bitstream", "done",
               <<print_verilog_module_end(<<circuit_name,
                                            formal_verification_top_module_postfix>>)>>)

\* the top modules print_verilog_preconfig_top_module is run on
TopModuleManagers ==
  { ModuleManager(names, g, io, in) :
      names \in { <<"grid_clb", fpga_top_module_name>>, <<"grid_clb">> },
      g \in { <<>>,
              <<BasicPortOfWidth(<<"clk">>, 1), BasicPortOfWidth(<<"rst">>, 4)>>,
              <<BasicPortOfWidth(<<"set">>, 2)>> },
      io \in { <<BasicPortOfWidth(gfpga_pad_name, 3)>>, <<>> },
      in \in { <<>>, <<BasicPortOfWidth(<<"ccff_head">>, 1)>> } }

\* the benchmarks print_verilog_preconfig_top_module is run on
TopBenchmarks ==
  { [blocks |-> <<>>, placement |-> <<>>],
    [blocks |-> << LogicalBlock(IoBlockName(1), "VPACK_INPAD", TRUE, 1),
                   LogicalBlock(IoBlockName(2), "VPACK_OUTPAD", FALSE, 2) >>,
     placement |-> <<0, 2>>],
    [blocks |-> << LogicalBlock(IoBlockName(1), "VPACK_INPAD", FALSE, 1),
                   LogicalBlock(IoBlockName(2), "VPACK_COMB", FALSE, 2),
                   LogicalBlock(IoBlockName(3), "VPACK_OUTPAD", FALSE, 3) >>,
     placement |-> <<0, 0, 5>>] }

\* the bitstreams print_verilog_preconfig_top_module is run on
TopBitstreams ==
  { [manager |-> bm, bits |-> s] :
      bm \in { m \in BitstreamManagers : Len(m.block_parent) = 2 /\ ~m.flip },
      s \in { <<>>, << [block |-> 1, index |-> 0], [block |-> 2, index |-> 1] >> } }

InitTop ==
  /\ top_pc = "header"
  /\ fp = <<>>
  /\ module_manager \in TopModuleManagers
  /\ global_ports = <<1, 4>>
  /\ benchmark_clock_port_names = <<>>
  /\ glob_pc = "idle"
  /\ glob_i = 0
  /\ \E b \in TopBenchmarks :
       /\ L_logical_blocks = b.blocks
       /\ L_blocks = b.placement
  /\ io_used = <<>>
  /\ io_pc = "idle"
  /\ io_i = 0
  /\ \E b \in TopBitstreams :
       /\ bitstream_manager = b.manager
       /\ fabric_bitstream = b.bits
  /\ top_module_name = fpga_top_module_name
  /\ bit_pc = "idle"
  /\ bit_i = 0
  /\ LibOfWriter

NextTop ==
  \/ PrintFileHeader
  \/ PrintModulePorts
  \/ PrintInternalWires
  \/ PrintTopInstance
  \/ CallConnectGlobalPorts
  \/ BeginConnectGlobalPorts
  \/ ConnectGlobalPort
  \/ EndConnectGlobalPorts
  \/ CallConnectIos
  \/ BeginConnectIos
  \/ ConnectIoBlock
  \/ BeginTieOff
  \/ TieOffPad
  \/ EndConnectIos
  \/ CallLoadBitstream
  \/ BeginLoadBitstream
  \/ LoadBit
  \/ EndLoadBitstream
  \/ PrintModuleEnd

SpecTop == InitTop /\ [][NextTop]_vars

(***************************************************************************)
(* Vocabulary of the properties.                                           *)
(***************************************************************************)
\* the calls of check_circuit_library whose result is added to num_err, in
\* the order of the source
AccumulatedChecks ==
  <<"unique_names", "unique_prefix", "ports", "iopad_required", "iopad_ports",
    "mux_required", "mux_ports", "sram_or_scff", "sram_ports", "scff_ports",
    "ff_ports", "lut_ports">>

DefaultChecks == <<"default_mux", "default_chan_wire", "default_wire">>

Terminated == pc \in {"returned", "exited"}

Ran(check) == \E k \in 1..Len(counted) : counted[k].check = check

\* what the call returned (the call has run)
Returned(check) ==
  counted[CHOOSE k \in 1..Len(counted) : counted[k].check = check].n

RECURSIVE SumN(_)
SumN(s) == IF s = <<>> THEN 0 ELSE Head(s).n + SumN(Tail(s))

ModelIds(lib) == 0..(num_models(lib) - 1)

IdsOfType(lib, type) == { m \in ModelIds(lib) : lib.models[m + 1].type = type }

PortsOf(lib, m) == lib.models[m + 1].ports

HasPort(lib, m, t) == \E k \in 1..Len(PortsOf(lib, m)) : PortsOf(lib, m)[k].type = t

HasDefault(lib, type) ==
  \E m \in IdsOfType(lib, type) : lib.models[m + 1].is_default

AllDefaultsExist(lib) == \A k \in 1..3 : HasDefault(lib, DefaultTypes[k])

\* the first type, in the order MUX, CHAN_WIRE, WIRE, without a default model
FirstMissingDefault(lib) ==
  DefaultTypes[CHOOSE k \in 1..3 :
                 /\ ~HasDefault(lib, DefaultTypes[k])
                 /\ \A j \in 1..(k - 1) : HasDefault(lib, DefaultTypes[j])]

\* the lines of the log with a message
LinesOf(msg) == SelectSeq(log, LAMBDA d : d.msg = msg)

\* n * (n - 1) / 2
Choose2(n) == (n * (n - 1)) \div 2

RECURSIVE SumChoose2(_, _)
SumChoose2(values, count) ==
  IF values = {} THEN 0
  ELSE LET v == CHOOSE x \in values : TRUE
       IN Choose2(count[v]) + SumChoose2(values \ {v}, count)

\* sum, over the values of an attribute, of C(k, 2) for the k models sharing it
PairsSharing(attr) ==
  LET values == { attr[i] : i \in DOMAIN attr }
      count == [v \in values |-> Cardinality({ i \in DOMAIN attr : attr[i] = v })]
  IN SumChoose2(values, count)

NamesOf(lib) == [i \in 1..num_models(lib) |-> lib.models[i].name]

PrefixesOf(lib) == [i \in 1..num_models(lib) |-> lib.models[i].prefix]

\* the pairs i < j (ids from 0) that share the attribute
SharingPairs(attr) ==
  { <<i - 1, j - 1>> : <<i, j>> \in
      { q \in (DOMAIN attr) \X (DOMAIN attr) : q[1] < q[2] /\ attr[q[1]] = attr[q[2]] } }

PairsLogged(msg) ==
  LET lines == LinesOf(msg) IN { <<lines[k].m, lines[k].n>> : k \in 1..Len(lines) }

\* the check counted and logged exactly the sharing pairs of the attribute
CountsPairs(check, msg, attr) ==
  LET pairs == SharingPairs(attr) IN
  /\ Returned(check) = PairsSharing(attr)
  /\ Returned(check) = Cardinality(pairs)
  /\ PairsLogged(msg) = pairs
  /\ Len(LinesOf(msg)) = Cardinality(pairs)
  /\ Len(attr) <= 1 => Returned(check) = 0

\* C1: for names and for prefixes, the uniqueness check counts one error per
\* unordered pair of distinct models sharing the value, each pair i < j once
\* (k models sharing one value give C(k,2)), none for a catalog of 0 or 1
\* models, and a catalog with such a pair never returns normally.
C1_UniquenessPairs ==
  /\ Ran("unique_names") =>
       CountsPairs("unique_names", "same_name", NamesOf(circuit_lib))
  /\ Ran("unique_prefix") =>
       CountsPairs("unique_prefix", "same_prefix", PrefixesOf(circuit_lib))
  /\ (PairsSharing(NamesOf(circuit_lib)) > 0 \/ PairsSharing(PrefixesOf(circuit_lib)) > 0)
       => /\ pc # "returned"
          /\ pc = "finish" => num_err > 0
          /\ Terminated => pc = "exited"

\* three models share one name (3 pairs), two share a prefix, and the process
\* has exited
C1_Witness ==
  /\ pc = "exited"
  /\ Ran("unique_names") /\ Returned("unique_names") = 3
  /\ Ran("unique_prefix") /\ Returned("unique_prefix") = 1

\* C2: every accumulated check runs whatever the earlier ones counted, the
\* counts are summed into num_err, and when the three default models exist
\* the total is reported exactly once, after all of them, and the process
\* exits with failure exactly when the total is not zero.
C2_AccumulateThenReport ==
  /\ Len(counted) <= Len(AccumulatedChecks) + Len(DefaultChecks)
  /\ \A k \in 1..Len(counted) :
       counted[k].check = (AccumulatedChecks \o DefaultChecks)[k]
  /\ num_err = SumN(counted)
  /\ pc \in {"default_mux", "default_chan_wire", "default_wire", "finish"} \cup
            {"returned", "exited"}
       => /\ Len(counted) >= Len(AccumulatedChecks)
          /\ Len(log) >= num_err
  /\ ~Terminated => LinesOf("finished") = <<>>
  /\ AllDefaultsExist(circuit_lib) /\ Terminated
       => /\ Len(counted) = Len(AccumulatedChecks) + Len(DefaultChecks)
          /\ LinesOf("finished") = <<Diag("finished", INVALID, SumN(counted), "")>>
          /\ log[Len(log)].msg = "finished"
          /\ Len(log) = num_err + 1
          /\ pc = "exited" <=> num_err > 0
          /\ pc = "returned" <=> num_err = 0

\* errors of an early and of a late check are both in the total, which is
\* reported before the process exits
C2_Witness ==
  /\ pc = "exited"
  /\ AllDefaultsExist(circuit_lib)
  /\ Returned("unique_names") > 0
  /\ Returned("ports") > 0
  /\ Returned("sram_ports") > 0
  /\ LinesOf("finished") # <<>>

\* the pass stopped at a default-model check
FatalPath == pc = "exited" /\ log # <<>> /\ log[Len(log)].msg = "no_default"

\* C3 as stated: in a pass that hits the fatal path no accumulated check has
\* run or reported, and the count is never reported.
C3_Original ==
  FatalPath =>
    /\ counted = <<>>
    /\ Len(log) = 1
    /\ LinesOf("finished") = <<>>

\* C3 amended: the default-model checks come last.  A missing default ends
\* the process at the first missing type with one missing-default line,
\* the later default checks do not run, and the count is never reported; the
\* twelve accumulated checks have all run and reported before.
C3_FatalAfterAccumulated ==
  ~AllDefaultsExist(circuit_lib) =>
    /\ pc \notin {"finish", "returned"}
    /\ LinesOf("finished") = <<>>
    /\ Len(LinesOf("no_default")) <= 1
    /\ pc = "exited" =>
         /\ FatalPath
         /\ LinesOf("no_default") =
              <<Diag("no_default", INVALID, INVALID, FirstMissingDefault(circuit_lib))>>
         /\ Len(counted) >= Len(AccumulatedChecks)
         /\ \A k \in 1..Len(AccumulatedChecks) : counted[k].check = AccumulatedChecks[k]
         /\ \A k \in 1..3 :
              Ran(DefaultChecks[k]) <=>
                \A j \in 1..k : HasDefault(circuit_lib, DefaultTypes[j])
         /\ Len(log) = num_err + 1
         /\ num_err = SumN(counted)

\* the pass stopped at the CHAN_WIRE default after the accumulated checks had
\* reported errors
C3_Witness ==
  /\ FatalPath
  /\ log[Len(log)].t = "CHAN_WIRE"
  /\ num_err >= 2
  /\ Len(log) = num_err + 1
  /\ ~HasDefault(circuit_lib, "WIRE")

(***************************************************************************)
(* The rules of the library, stated on the catalog.                        *)
(***************************************************************************)
\* the port types the claims require of the models of a type
RequiredPortTypes(type) ==
  CASE type = "IOPAD" -> {"INPUT", "OUTPUT", "INOUT", "SRAM"}
    [] type = "MUX" -> {"INPUT", "OUTPUT", "SRAM"}
    [] type = "SRAM" -> {"INPUT", "OUTPUT"}
    [] type = "SCFF" -> {"CLOCK", "INPUT", "OUTPUT"}
    [] type = "FF" -> {"CLOCK", "INPUT", "OUTPUT"}
    [] type = "LUT" -> {"SRAM", "INPUT", "OUTPUT"}
    [] OTHER -> {}

\* the (model, port type) pairs of a model type where the model has no port
\* of the required type
MissingPorts(lib, type) ==
  { <<m, t>> \in IdsOfType(lib, type) \X RequiredPortTypes(type) : ~HasPort(lib, m, t) }

Injective(attr) == \A i, j \in DOMAIN attr : attr[i] = attr[j] => i = j

\* every global port is an input port; every set, reset or config-enable port
\* is global
PortAttributesOk(lib) ==
  \A m \in ModelIds(lib) : \A k \in 1..Len(PortsOf(lib, m)) :
    LET p == PortsOf(lib, m)[k] IN
    /\ p.is_global => is_input_port(p)
    /\ (p.is_set \/ p.is_reset \/ p.is_config_enable) => p.is_global

RequiredModelsExist(lib) ==
  /\ IdsOfType(lib, "IOPAD") # {}
  /\ IdsOfType(lib, "MUX") # {}
  /\ IdsOfType(lib, "SRAM") \cup IdsOfType(lib, "SCFF") # {}

RequiredPortsExist(lib) ==
  \A type \in {"IOPAD", "MUX", "SRAM", "SCFF", "FF", "LUT"} : MissingPorts(lib, type) = {}

\* every rule of the accumulated class holds
AccumulatedRulesHold(lib) ==
  /\ Injective(NamesOf(lib))
  /\ Injective(PrefixesOf(lib))
  /\ PortAttributesOk(lib)
  /\ RequiredModelsExist(lib)
  /\ RequiredPortsExist(lib)

\* C4: a catalog that satisfies every other rule and has default MUX and
\* CHAN_WIRE models but no default WIRE model ends the process at the WIRE
\* default check: the missing-default line is the only diagnostic, no
\* uniqueness line is written, the final count line is never produced.
C4_MissingWireDefault ==
  ( /\ AccumulatedRulesHold(circuit_lib)
    /\ HasDefault(circuit_lib, "MUX")
    /\ HasDefault(circuit_lib, "CHAN_WIRE")
    /\ ~HasDefault(circuit_lib, "WIRE") )
  => /\ pc \notin {"finish", "returned"}
     /\ LinesOf("finished") = <<>>
     /\ LinesOf("same_name") = <<>> /\ LinesOf("same_prefix") = <<>>
     /\ pc # "exited" => log = <<>>
     /\ pc = "exited" =>
          /\ log = <<Diag("no_default", INVALID, INVALID, "WIRE")>>
          /\ Len(counted) = Len(AccumulatedChecks) + 2
          /\ counted[Len(counted)].check = "default_chan_wire"

\* such a catalog, with the required models in it, after the exit
C4_Witness ==
  /\ AccumulatedRulesHold(circuit_lib)
  /\ IdsOfType(circuit_lib, "LUT") # {}
  /\ HasDefault(circuit_lib, "MUX")
  /\ HasDefault(circuit_lib, "CHAN_WIRE")
  /\ ~HasDefault(circuit_lib, "WIRE")
  /\ pc = "exited"
  /\ Len(log) = 1

\* C5: with no IOPAD model the existence check counts one error and the
\* IOPAD port check none; the same for MUX.
C5_MissingModelType ==
  /\ IdsOfType(circuit_lib, "IOPAD") = {} =>
       /\ Ran("iopad_required") =>
            /\ Returned("iopad_required") = 1
            /\ LinesOf("model_required")[1] = Diag("model_required", INVALID, INVALID, "IOPAD")
       /\ Ran("iopad_ports") => Returned("iopad_ports") = 0
  /\ IdsOfType(circuit_lib, "MUX") = {} =>
       /\ Ran("mux_required") =>
            /\ Returned("mux_required") = 1
            /\ Diag("model_required", INVALID, INVALID, "MUX") \in
                 { LinesOf("model_required")[k] : k \in 1..Len(LinesOf("model_required")) }
       /\ Ran("mux_ports") => Returned("mux_ports") = 0
  /\ Terminated /\ (IdsOfType(circuit_lib, "IOPAD") = {} \/ IdsOfType(circuit_lib, "MUX") = {})
       => pc = "exited"

\* a catalog of other models, without IOPAD and without MUX, fully checked
C5_Witness ==
  /\ IdsOfType(circuit_lib, "IOPAD") = {}
  /\ IdsOfType(circuit_lib, "MUX") = {}
  /\ num_models(circuit_lib) >= 3
  /\ Ran("mux_ports")
  /\ Returned("iopad_required") = 1 /\ Returned("iopad_ports") = 0
  /\ Returned("mux_required") = 1 /\ Returned("mux_ports") = 0

\* the ports of a model of a type; global ports count when with_global
PortsOfType(lib, m, t, with_global) ==
  { k \in 1..Len(PortsOf(lib, m)) :
      PortsOf(lib, m)[k].type = t /\ (with_global \/ ~PortsOf(lib, m)[k].is_global) }

\* the model has exactly n such ports and each has the width
ExactPorts(lib, m, t, n, width, with_global) ==
  /\ Cardinality(PortsOfType(lib, m, t, with_global)) = n
  /\ \A k \in PortsOfType(lib, m, t, with_global) : PortsOf(lib, m)[k].size = width

HasAllPorts(lib, m, types) == \A t \in types : HasPort(lib, m, t)

\* the minimal valid catalog as the claim describes it
MinimalValidAsStated(lib) ==
  /\ \A type \in {"IOPAD", "MUX", "SRAM", "LUT"} : Cardinality(IdsOfType(lib, type)) = 1
  /\ \A m \in ModelIds(lib) :
       lib.models[m + 1].type \in {"IOPAD", "MUX", "SRAM", "LUT", "CHAN_WIRE", "WIRE"}
  /\ \A m \in IdsOfType(lib, "IOPAD") : HasAllPorts(lib, m, {"INPUT", "OUTPUT", "INOUT", "SRAM"})
  /\ \A m \in IdsOfType(lib, "MUX") : HasAllPorts(lib, m, {"INPUT", "OUTPUT", "SRAM"})
  /\ \A m \in IdsOfType(lib, "SRAM") : ExactPorts(lib, m, "OUTPUT", 1, 2, TRUE)
  /\ \A m \in IdsOfType(lib, "LUT") : HasAllPorts(lib, m, {"SRAM", "INPUT", "OUTPUT"})
  /\ AllDefaultsExist(lib)
  /\ Injective(NamesOf(lib))
  /\ Injective(PrefixesOf(lib))
  /\ PortAttributesOk(lib)

\* C6 as stated: the minimal valid catalog is reported with zero errors and
\* the process is not terminated.
C6_Original ==
  MinimalValidAsStated(circuit_lib) => num_err = 0 /\ pc # "exited"

\* C6 amended: the same, for a minimal valid catalog whose SRAM model also has
\* at least one INPUT port.
C6_MinimalValidCatalog ==
  ( /\ MinimalValidAsStated(circuit_lib)
    /\ \A m \in IdsOfType(circuit_lib, "SRAM") : HasPort(circuit_lib, m, "INPUT") )
  => /\ num_err = 0
     /\ pc # "exited"
     /\ \A k \in 1..Len(counted) : counted[k].n = 0
     /\ pc # "returned" => log = <<>>
     /\ pc = "returned" =>
          /\ log = <<Diag("finished", INVALID, 0, "")>>
          /\ Len(counted) = Len(AccumulatedChecks) + Len(DefaultChecks)

\* the check of such a catalog has returned
C6_Witness ==
  /\ MinimalValidAsStated(circuit_lib)
  /\ \A m \in IdsOfType(circuit_lib, "SRAM") : HasPort(circuit_lib, m, "INPUT")
  /\ pc = "returned"

\* the count-and-width rules as the claim words them
SramCountWidthAsStated(lib, m) == ExactPorts(lib, m, "OUTPUT", 1, 2, TRUE)

ScffCountWidthAsStated(lib, m) ==
  /\ ExactPorts(lib, m, "INPUT", 1, 1, TRUE)
  /\ ExactPorts(lib, m, "CLOCK", 1, 1, TRUE)
  /\ ExactPorts(lib, m, "OUTPUT", 2, 1, TRUE)

FFCountWidthAsStated(lib, m) ==
  /\ ExactPorts(lib, m, "INPUT", 3, 1, TRUE)
  /\ ExactPorts(lib, m, "CLOCK", 1, 1, FALSE)
  /\ ExactPorts(lib, m, "OUTPUT", 1, 1, TRUE)

\* the count-and-width rules over the ports the per-model checks select:
\* non-global ports, but for the CLOCK of an SCFF
SramCountWidth(lib, m) == ExactPorts(lib, m, "OUTPUT", 1, 2, FALSE)

ScffCountWidth(lib, m) ==
  /\ ExactPorts(lib, m, "INPUT", 1, 1, FALSE)
  /\ ExactPorts(lib, m, "CLOCK", 1, 1, TRUE)
  /\ ExactPorts(lib, m, "OUTPUT", 2, 1, FALSE)

FFCountWidth(lib, m) ==
  /\ ExactPorts(lib, m, "INPUT", 3, 1, FALSE)
  /\ ExactPorts(lib, m, "CLOCK", 1, 1, FALSE)
  /\ ExactPorts(lib, m, "OUTPUT", 1, 1, FALSE)

CountsMissingPorts(check, type) ==
  LET lines == SelectSeq(LinesOf("no_port"),
                         LAMBDA d : model_type(circuit_lib, d.m) = type)
  IN /\ Returned(check) = Cardinality(MissingPorts(circuit_lib, type))
     /\ Len(lines) = Returned(check)
     /\ { <<lines[k].m, lines[k].t>> : k \in 1..Len(lines) } = MissingPorts(circuit_lib, type)

PortChecks ==
  { <<"iopad_ports", "IOPAD">>, <<"mux_ports", "MUX">>, <<"sram_ports", "SRAM">>,
    <<"scff_ports", "SCFF">>, <<"ff_ports", "FF">>, <<"lut_ports", "LUT">> }

\* C8: each required-port-type check counts one error per (model of the
\* type, required port type) with no such port and nothing else, with the
\* required sets of the claim; after a normal return every model has a port
\* of each required type, an IOPAD and a MUX exist, and an SRAM or SCFF exists.
C8_RequiredPortTypes ==
  /\ \A c \in PortChecks : Ran(c[1]) => CountsMissingPorts(c[1], c[2])
  /\ Ran("lut_ports") =>
       Len(LinesOf("no_port")) =
         Returned("iopad_ports") + Returned("mux_ports") + Returned("sram_ports")
         + Returned("scff_ports") + Returned("ff_ports") + Returned("lut_ports")
  /\ Ran("sram_or_scff") =>
       (Returned("sram_or_scff") = 0 <=>
          IdsOfType(circuit_lib, "SRAM") \cup IdsOfType(circuit_lib, "SCFF") # {})
  /\ pc = "returned" =>
       /\ RequiredPortsExist(circuit_lib)
       /\ RequiredModelsExist(circuit_lib)

\* two IOPAD models, each without two of the required port types, and the
\* last port check has run
C8_Witness ==
  /\ Ran("lut_ports")
  /\ Cardinality(IdsOfType(circuit_lib, "IOPAD")) = 2
  /\ Returned("iopad_ports") = 4
  /\ Returned("sram_ports") = 1

(***************************************************************************)
(* Properties of the bitstream load.                                       *)
(***************************************************************************)
\* the names of the blocks from the child of the root down to the block
RECURSIVE AncestorNames(_, _)
AncestorNames(bm, b) ==
  IF bm.block_parent[b] = NO_BLOCK THEN <<>>
  ELSE Append(AncestorNames(bm, bm.block_parent[b]), bm.block_name[b])

\* the number of blocks between the root and the block, the block included
RECURSIVE Depth(_, _)
Depth(bm, b) ==
  IF bm.block_parent[b] = NO_BLOCK THEN 0 ELSE 1 + Depth(bm, bm.block_parent[b])

\* the instance name, "." and a name for each ancestor, "." and the data-out name
ExpectedPath(bm, b) ==
  LET names == AncestorNames(bm, b)
      n == Len(names)
  IN [k \in 1..(2 * n + 3) |->
        IF k = 1 THEN formal_verification_top_module_uut_name
        ELSE IF k % 2 = 0 THEN "."
        ELSE IF k = 2 * n + 3 THEN configuration_chain_data_out_name
        ELSE names[(k - 1) \div 2]]

\* the constant assignments written so far
Constants == SelectSeq(fp, LAMBDA e : e.kind = "constant")

\* C9: the wire of a configuration bit is named by the instance name, the
\* names of the ancestors of the bit from the child of the root down to its
\* owner, and the data-out name, joined by "."; a bit of the root gets
\* <instance>.<data-out>, an owner at depth d gets d names between; the name
\* is the same whatever the tree around the ancestor chain; the wire is
\* indexed by the index of the bit in its owner.
C9_HierarchyPath ==
  LET written == Constants IN
  \A k \in 1..Len(written) :
    LET bit == fabric_bitstream[k]
        b == bit.block
        port == written[k].port
    IN /\ port.name = ExpectedPath(bitstream_manager, b)
       /\ Len(port.name) = 2 * Depth(bitstream_manager, b) + 3
       /\ Depth(bitstream_manager, b) = 0 =>
            port.name = <<formal_verification_top_module_uut_name, ".",
                          configuration_chain_data_out_name>>
       /\ \A j \in 1..Len(port.name) : port.name[j] # bitstream_manager.block_name[1]
       /\ port.lsb = bit.index /\ port.msb = bit.index
       /\ \A bm \in BitstreamManagers : \A c \in 1..Len(bm.block_parent) :
            AncestorNames(bm, c) = AncestorNames(bitstream_manager, b)
              => config_port_of(bm, [block |-> c, index |-> bit.index]) = port

\* a bit of the root and a bit two blocks below it have been written
C9_Witness ==
  /\ bit_pc = "done"
  /\ \E k \in 1..Len(Constants) :
       Constants[k].port.name =
         <<formal_verification_top_module_uut_name, ".", "grid", ".", "logic_block", ".",
           configuration_chain_data_out_name>>
  /\ \E k \in 1..Len(Constants) :
       /\ Constants[k].port.name =
            <<formal_verification_top_module_uut_name, ".", configuration_chain_data_out_name>>
       /\ Constants[k].port.lsb = 1

\* the assignment the load block owes to a bit
ExpectedAssignment(bm, bit) ==
  [kind |-> "constant",
   port |-> [name |-> ExpectedPath(bm, bit.block), lsb |-> bit.index, msb |-> bit.index],
   values |-> <<bit_value(bm, bit)>>]

\* C10: the load block writes one 1-bit constant assignment per element of
\* fabric_bitstream, the i-th for the i-th element (its value, its path, its
\* index in its owner): nothing reordered, grouped, merged or left out.
C10_EmissionOrder ==
  /\ bit_i <= Len(fabric_bitstream)
  /\ bit_pc \in {"loop", "done", "fault"} =>
       fp = <<print_verilog_comment("begin_load_bitstream")>>
            \o [k \in 1..bit_i |-> ExpectedAssignment(bitstream_manager, fabric_bitstream[k])]
            \o (IF bit_pc = "done"
                THEN <<print_verilog_comment("end_load_bitstream")>>
                ELSE <<>>)
  /\ \A k \in 1..Len(Constants) : Len(Constants[k].values) = 1
  /\ bit_pc = "done" =>
       /\ bit_i = Len(fabric_bitstream)
       /\ Len(Constants) = Len(fabric_bitstream)

\* three bits were loaded: the first and the last are the same bit of a block
\* below the root, the second a bit of another block at another depth
C10_Witness ==
  /\ bit_pc = "done"
  /\ Len(fabric_bitstream) = 3
  /\ fabric_bitstream[1] = fabric_bitstream[3]
  /\ fabric_bitstream[1].block > fabric_bitstream[2].block
  /\ Depth(bitstream_manager, fabric_bitstream[1].block)
       # Depth(bitstream_manager, fabric_bitstream[2].block)
  /\ Len(Constants) = 3

(***************************************************************************)
(* The global-port binder.                                                 *)
(***************************************************************************)
\* the global ports of the top module, in the order the binder visits them
ModuleGlobalPorts == module_manager.global_ports

\* the positions of global_ports whose circuit port is named as the module port
MatchingPositions(mp) ==
  { i \in 1..Len(global_ports) :
      circuit_lib.ports_by_id[global_ports[i]].lib_name = mp.name }

\* the circuit port matched to a module port: the first one of that name
MatchedPort(mp) ==
  LET first == CHOOSE i \in MatchingPositions(mp) :
                 \A j \in MatchingPositions(mp) : i <= j
  IN circuit_lib.ports_by_id[global_ports[first]]

WidthOf(port) == port.msb - port.lsb + 1

\* a non-programming clock
IsPassedThrough(cp) == cp.type = "CLOCK" /\ ~cp.is_prog

\* the binder has just finished the global port at position glob_i + 1
BoundGlobalPort == glob_pc = "loop" /\ glob_i' = glob_i + 1

\* what the step has appended to the stream
Appended == SubSeq(fp', Len(fp) + 1, Len(fp'))

\* the stream only grows
Extends == Len(fp') >= Len(fp) /\ SubSeq(fp', 1, Len(fp)) = fp

\* the lines of the stream of a kind
LinesOfKind(kind) == SelectSeq(fp, LAMBDA line : line.kind = kind)

\* the 1-bit benchmark pin of a clock name
BenchmarkPin(name) == [name |-> <<name, "_fm">>, lsb |-> 0, msb |-> 0]

\* the lines are one 1-bit connection for each pin of mp and each clock name
WiredToEveryClock(lines, mp) ==
  /\ Len(lines) = WidthOf(mp) * Len(benchmark_clock_port_names)
  /\ \A n \in 1..Len(lines) : lines[n].kind = "connection"
  /\ \A pin \in mp.lsb..mp.msb : \A c \in 1..Len(benchmark_clock_port_names) :
       Cardinality({ n \in 1..Len(lines) :
                       /\ lines[n].port = [name |-> mp.name, lsb |-> pin, msb |-> pin]
                       /\ lines[n].values =
                            <<BenchmarkPin(benchmark_clock_port_names[c])>> }) = 1

\* the lines are constant assignments that give every pin of mp the value
\* exactly once, and no connection
TiedOffTo(lines, mp, value) ==
  /\ \A n \in 1..Len(lines) :
       /\ lines[n].kind = "constant"
       /\ lines[n].port.name = mp.name
       /\ Len(lines[n].values) = WidthOf(lines[n].port)
       /\ lines[n].port.lsb >= mp.lsb /\ lines[n].port.msb <= mp.msb
       /\ \A k \in 1..Len(lines[n].values) : lines[n].values[k] = value
  /\ \A pin \in mp.lsb..mp.msb :
       Cardinality({ n \in 1..Len(lines) :
                       lines[n].port.lsb <= pin /\ pin <= lines[n].port.msb }) = 1

\* C11: a global port matched to a CLOCK circuit port that is not a
\* programming clock gets one 1-bit wire connection per (pin, benchmark clock
\* name), that is width x number of clock names connections, and no constant;
\* every other global port (a programming clock included) gets no connection
\* and every one of its bits tied to the default value of the matched port.
C11_ClockOrTieOff ==
  [][BoundGlobalPort =>
       LET mp == ModuleGlobalPorts[glob_i + 1]
           cp == MatchedPort(mp)
       IN /\ Extends
          /\ IF IsPassedThrough(cp)
             THEN WiredToEveryClock(Appended, mp)
             ELSE TiedOffTo(Appended, mp, cp.default_value)]_vars

\* a clock of width 2 wired to two benchmark clocks (four connections) next
\* to a programming clock that is tied off
C11_Witness ==
  /\ glob_pc = "done"
  /\ Len(benchmark_clock_port_names) = 2
  /\ Len(LinesOfKind("connection")) = 4
  /\ \E n \in 1..Len(fp) :
       fp[n].kind = "constant" /\ fp[n].port.name = <<"prog_clk">>

\* C12 as stated: a tied-off global port of width w gets w constant
\* assignments of one bit each.
C12_Original ==
  glob_pc = "done" =>
    /\ \A n \in 1..Len(fp) : fp[n].kind = "constant" => WidthOf(fp[n].port) = 1
    /\ \A k \in 1..Len(ModuleGlobalPorts) :
         ~IsPassedThrough(MatchedPort(ModuleGlobalPorts[k])) =>
           Cardinality({ n \in 1..Len(fp) :
                           /\ fp[n].kind = "constant"
                           /\ fp[n].port.name = ModuleGlobalPorts[k].name })
             >= WidthOf(ModuleGlobalPorts[k])

\* C12: a tied-off global port of width w gets one constant assignment, to
\* the whole port, of w values that all are the default value of the matched
\* circuit port (width 4 and default 1: one assignment of 1, 1, 1, 1).
C12_OneAssignmentPerPort ==
  [][BoundGlobalPort =>
       LET mp == ModuleGlobalPorts[glob_i + 1]
           cp == MatchedPort(mp)
       IN ~IsPassedThrough(cp) =>
            /\ Len(Appended) = 1
            /\ Appended[1].kind = "constant"
            /\ Appended[1].port = mp
            /\ Appended[1].values = [k \in 1..WidthOf(mp) |-> cp.default_value]]_vars

\* the port of width 4 and default value 1 has been tied off
C12_Witness ==
  /\ glob_pc = "done"
  /\ \E n \in 1..Len(fp) :
       /\ fp[n].kind = "constant"
       /\ fp[n].port = [name |-> <<"rst">>, lsb |-> 0, msb |-> 3]
       /\ fp[n].values = <<1, 1, 1, 1>>

\* the module port has no circuit port of its name, or one of another size
Unlinkable(mp) ==
  \/ MatchingPositions(mp) = {}
  \/ MatchedPort(mp).size # WidthOf(mp)

\* C15: when no circuit port of global_ports is named as the module port, or
\* the matched one differs in size, the binder stops with a fault at that
\* port: nothing is written for it, no later port is visited, no error is
\* counted; and it faults in no other case.
C15_GlobalPortFault ==
  [][/\ (glob_pc = "loop" /\ glob_i < Len(ModuleGlobalPorts)
         /\ Unlinkable(ModuleGlobalPorts[glob_i + 1]))
          => /\ glob_pc' = "fault"
             /\ fp' = fp
             /\ glob_i' = glob_i
             /\ num_err' = num_err /\ log' = log
     /\ glob_pc' = "fault" /\ glob_pc # "fault"
          => /\ glob_i < Len(ModuleGlobalPorts)
             /\ Unlinkable(ModuleGlobalPorts[glob_i + 1])
     /\ glob_pc = "fault" => fp' = fp /\ glob_i' = glob_i /\ glob_pc' = "fault"]_vars

\* the second port faulted on its size after the first one was bound
C15_Witness ==
  /\ glob_pc = "fault"
  /\ glob_i = 1
  /\ Len(fp) > 1
  /\ MatchingPositions(ModuleGlobalPorts[2]) # {}
  /\ MatchedPort(ModuleGlobalPorts[2]).size # WidthOf(ModuleGlobalPorts[2])

(***************************************************************************)
(* The I/O binder.                                                         *)
(***************************************************************************)
\* the datapath I/O ports of the top module
GpioPorts == module_manager.gpio_ports

\* the width of the single datapath I/O port
PadWidth == GpioPorts[1].msb - GpioPorts[1].lsb + 1

\* the logical blocks that are pads of the benchmark, in input order
IoBlocks ==
  SelectSeq(L_logical_blocks,
            LAMBDA lb : lb.type \in {"VPACK_INPAD", "VPACK_OUTPAD"})

\* the pad index the placement gives a logical block
PadOf(lb) == L_blocks[lb.index]

\* the pad indices some pad of the benchmark is mapped to
MappedPads == { PadOf(IoBlocks[n]) : n \in 1..Len(IoBlocks) }

\* the pads of the benchmark are mapped to pairwise distinct pads
DistinctPads ==
  \A m, n \in 1..Len(IoBlocks) : m # n => PadOf(IoBlocks[m]) # PadOf(IoBlocks[n])

\* the bit of the datapath I/O port a line drives
PadBit(line) == line.port.lsb

\* a line drives one bit of the datapath I/O port
OnePadBit(line) ==
  /\ line.port.name = GpioPorts[1].name
  /\ line.port.lsb = line.port.msb

\* the positions of the stream that hold a line of a kind
PositionsOfKind(kind) == { n \in 1..Len(fp) : fp[n].kind = kind }

\* C13: with one datapath I/O port of width W and the pads of the benchmark
\* mapped to pairwise distinct pad indices, a finished run has written one
\* 1-bit connection per pad block, in block order, from the pad bit of its
\* index to the signal named block name + suffix, nothing for other blocks,
\* and after them one 1-bit constant for every index of 0..W-1 that no block
\* is mapped to, in ascending order: n connections and W - n constants.
C13_ConnectionsThenTieOffs ==
  (io_pc = "done" /\ DistinctPads) =>
    LET conns == LinesOfKind("connection")
        ties == LinesOfKind("constant")
    IN /\ Len(conns) = Len(IoBlocks)
       /\ \A n \in 1..Len(conns) :
            /\ OnePadBit(conns[n])
            /\ PadBit(conns[n]) = PadOf(IoBlocks[n])
            /\ conns[n].values =
                 <<[name |-> <<IoBlocks[n].name, "_fm">>, lsb |-> 0, msb |-> 0]>>
       /\ Len(ties) = PadWidth - Len(IoBlocks)
       /\ \A k \in 1..Len(ties) : OnePadBit(ties[k]) /\ Len(ties[k].values) = 1
       /\ \A k \in 1..(Len(ties) - 1) : PadBit(ties[k]) < PadBit(ties[k + 1])
       /\ { PadBit(ties[k]) : k \in 1..Len(ties) } = (0..(PadWidth - 1)) \ MappedPads
       /\ \A c \in PositionsOfKind("connection") :
            \A t \in PositionsOfKind("constant") : c < t

\* the port of width 8 with two blocks at the pads 2 and 5: two connections
\* and six constants
C13_Witness ==
  /\ io_pc = "done"
  /\ PadWidth = 8
  /\ MappedPads = {2, 5}
  /\ Len(IoBlocks) = 2
  /\ Len(L_logical_blocks) = 3
  /\ Len(LinesOfKind("connection")) = 2
  /\ Len(LinesOfKind("constant")) = 6

\* the logical block the first loop is at is a pad mapped beyond the port
AtPadOutOfRange ==
  /\ io_pc = "blocks"
  /\ io_i < Len(L_logical_blocks)
  /\ L_logical_blocks[io_i + 1].type \in {"VPACK_INPAD", "VPACK_OUTPAD"}
  /\ PadOf(L_logical_blocks[io_i + 1]) >= PadWidth

\* C16: the I/O binder stops with a fault before it writes anything when the
\* top module has not exactly one datapath I/O port, and stops with a fault
\* at a pad block whose pad index is not below the width of the port, before
\* the connection of that block is written and before a bit is marked; so
\* io_used is only ever marked at an index below its size.
C16_IoFaults ==
  [][/\ (io_pc = "begin" /\ Len(GpioPorts) # 1)
          => io_pc' = "fault" /\ fp' = fp /\ fp = <<>> /\ io_used' = io_used
     /\ (io_pc = "begin" /\ Len(GpioPorts) = 1) => io_pc' = "blocks"
     /\ AtPadOutOfRange
          => io_pc' = "fault" /\ fp' = fp /\ io_used' = io_used /\ io_i' = io_i
     /\ (io_pc = "blocks" /\ io_pc' = "fault") => AtPadOutOfRange
     /\ (io_pc = "blocks" /\ io_used' # io_used)
          => /\ PadOf(L_logical_blocks[io_i + 1]) < Len(io_used)
             /\ Len(io_used') = Len(io_used)
     /\ io_pc = "fault" => fp' = fp /\ io_used' = io_used /\ io_pc' = "fault"]_vars

\* a pad was connected, and the next pad block is mapped beyond the port
C16_Witness ==
  /\ io_pc = "fault"
  /\ Len(LinesOfKind("connection")) = 1
  /\ io_i >= 1
  /\ PadOf(L_logical_blocks[io_i + 1]) >= PadWidth

\* the number of lines of a kind that drive a bit of the datapath I/O port
DriversOf(kind, bit) ==
  Cardinality({ n \in PositionsOfKind(kind) : PadBit(fp[n]) = bit })

\* the state part of C20
IoUsedInvariant ==
  /\ io_pc \in {"blocks", "unused", "done"} => Len(io_used) = PadWidth
  /\ io_pc = "blocks" => PositionsOfKind("constant") = {}
  /\ io_pc = "unused" /\ io_i = 0 => PositionsOfKind("constant") = {}
  /\ io_pc = "done" =>
       \A bit \in 0..(PadWidth - 1) :
         \/ DriversOf("connection", bit) >= 1 /\ DriversOf("constant", bit) = 0
         \/ DriversOf("connection", bit) = 0 /\ DriversOf("constant", bit) = 1

\* the step part of C20
IoUsedStep ==
  /\ (io_pc = "begin" /\ io_pc' = "blocks")
       => io_used' = [k \in 1..PadWidth |-> FALSE]
  /\ io_pc # "begin" =>
       /\ Len(io_used') = Len(io_used)
       /\ \A k \in 1..Len(io_used) :
            /\ io_used[k] => io_used'[k]
            /\ (~io_used[k] /\ io_used'[k]) =>
                 /\ Len(fp') > Len(fp)
                 /\ fp'[Len(fp')].kind = "connection"
                 /\ OnePadBit(fp'[Len(fp')])
                 /\ PadBit(fp'[Len(fp')]) = k - 1
  /\ (io_pc = "blocks" /\ io_pc' = "unused") => io_i = Len(L_logical_blocks)

\* C20: io_used has as many entries as the datapath I/O port has bits,
\* starts all unused and only grows: a bit goes from unused to used, only
\* when its connection was just written, never back; no constant is written
\* before every logical block was visited; at the end every pad bit has
\* either connections and no constant or one constant and no connection.
C20_UsedBits == []IoUsedInvariant /\ [][IoUsedStep]_vars

\* a finished run over a port of width 3 with a used and an unused bit, the
\* used one connected twice
C20_Witness ==
  /\ io_pc = "done"
  /\ PadWidth = 3
  /\ io_used = <<TRUE, FALSE, TRUE>>
  /\ DriversOf("connection", 0) = 2
  /\ DriversOf("constant", 1) = 1

(***************************************************************************)
(* The root of the block hierarchy of a bit.                               *)
(***************************************************************************)
\* the block without parent above a block
RECURSIVE RootOf(_, _)
RootOf(bm, b) ==
  IF bm.block_parent[b] = NO_BLOCK THEN b ELSE RootOf(bm, bm.block_parent[b])

\* the name of the root above the owner of a bit
RootNameOf(bit) ==
  bitstream_manager.block_name[RootOf(bitstream_manager, bit.block)]

\* the loop is at a bit whose root is not named as the top module
AtForeignRoot ==
  /\ bit_pc = "loop"
  /\ bit_i < Len(fabric_bitstream)
  /\ RootNameOf(fabric_bitstream[bit_i + 1]) # top_module_name

\* the step part of C17
RootNameStep ==
  /\ AtForeignRoot => bit_pc' = "fault" /\ fp' = fp /\ bit_i' = bit_i
  /\ (bit_pc = "loop" /\ bit_pc' = "fault") => AtForeignRoot
  /\ bit_pc = "fault" => fp' = fp /\ bit_pc' = "fault"

\* the state part of C17
RootNameInvariant ==
  /\ bit_pc = "fault" =>
       /\ Len(Constants) = bit_i
       /\ \A k \in 1..bit_i : RootNameOf(fabric_bitstream[k]) = top_module_name
  /\ \A k \in 1..Len(Constants) :
       LET name == Constants[k].port.name
           bit == fabric_bitstream[k]
       IN /\ name[1] = formal_verification_top_module_uut_name
          /\ Len(name) = 2 * Depth(bitstream_manager, bit.block) + 3
          /\ \A j \in 1..Len(name) : name[j] # RootNameOf(bit)

\* C17: at a bit whose root block is not named as the top module the load
\* stops with a fault before anything is written for that bit, the
\* assignments of the bits before it being written already; under a root
\* named as the top module the path starts with the instance name, holds one
\* name per block below the root and nowhere the name of the root.
C17_RootNameFault == []RootNameInvariant /\ [][RootNameStep]_vars

\* two bits under the top module were written, the third sits under a root
\* of another name
C17_Witness ==
  /\ bit_pc = "fault"
  /\ bit_i = 2
  /\ Len(Constants) = 2
  /\ bitstream_manager.block_name[1] = top_module_name
  /\ RootNameOf(fabric_bitstream[3]) # top_module_name

(***************************************************************************)
(* The attributes of the ports of the library.                             *)
(***************************************************************************)
\* the ports of the library, each as (model, position among its ports)
AllPorts(lib) ==
  UNION { { <<m, k>> : k \in 1..Len(PortsOf(lib, m)) } : m \in ModelIds(lib) }

PortAt(lib, mk) == PortsOf(lib, mk[1])[mk[2]]

\* the ports that are global but no input port
GlobalNotInput(lib) ==
  { mk \in AllPorts(lib) : PortAt(lib, mk).is_global /\ ~is_input_port(PortAt(lib, mk)) }

\* the ports that are not global and set, reset or config-enable
FlaggedNotGlobal(lib) ==
  { mk \in AllPorts(lib) :
      /\ ~PortAt(lib, mk).is_global
      /\ (PortAt(lib, mk).is_set \/ PortAt(lib, mk).is_reset
          \/ PortAt(lib, mk).is_config_enable) }

\* C19: the port-attribute check returns the number of ports that are global
\* but no input port plus the number of ports that are not global and set,
\* reset or config-enable, one ERROR line each; a port with several of the
\* flags counts once; no port is counted by both rules; after a normal
\* return every global port is an input port and every set, reset or
\* config-enable port is global.
C19_PortAttributes ==
  LET not_input == GlobalNotInput(circuit_lib)
      not_global == FlaggedNotGlobal(circuit_lib)
      first == LinesOf("global_not_input")
      second == LinesOf("not_global")
  IN /\ not_input \cap not_global = {}
     /\ Ran("ports") =>
          /\ Returned("ports") = Cardinality(not_input) + Cardinality(not_global)
          /\ Len(first) = Cardinality(not_input)
          /\ Len(second) = Cardinality(not_global)
          /\ { first[k].m : k \in 1..Len(first) } = { mk[1] : mk \in not_input }
          /\ { second[k].m : k \in 1..Len(second) } = { mk[1] : mk \in not_global }
     /\ pc = "returned" =>
          /\ not_input = {}
          /\ not_global = {}
          /\ PortAttributesOk(circuit_lib)

\* the check counted a global output port and a port that is set and reset
\* but not global: two errors
C19_Witness ==
  /\ Ran("ports")
  /\ Returned("ports") = 2
  /\ Cardinality(GlobalNotInput(circuit_lib)) = 1
  /\ \E mk \in FlaggedNotGlobal(circuit_lib) :
       PortAt(circuit_lib, mk).is_set /\ PortAt(circuit_lib, mk).is_reset

(***************************************************************************)
(* The port count-and-width check of one model and one port type.          *)
(***************************************************************************)
\* the ports of a model a call selects: those of the type, the global ones
\* only when the call includes them
SelectedBy(call) ==
  { k \in 1..Len(PortsOf(circuit_lib, call.model)) :
      /\ PortsOf(circuit_lib, call.model)[k].type = call.type
      /\ (call.include_global \/ ~PortsOf(circuit_lib, call.model)[k].is_global) }

\* the selected ports whose size is not the required one
WrongSize(call) ==
  { k \in SelectedBy(call) : PortsOf(circuit_lib, call.model)[k].size # call.size }

\* the lines of the log a call has written: those after the lines of the
\* calls before it
LinesOfCall(c) ==
  LET before == SumN(SubSeq(counted, 1, c - 1))
  IN SubSeq(log, before + 1, before + counted[c].n)

\* C18: check_one_circuit_model_port_type_and_size_required selects the ports
\* of the model that have the type, the global ones left out exactly when
\* include_global is false, and returns 1 if their number is not the
\* required one (else 0) plus the number of selected ports of another size
\* than the required one; a wrong number of ports does not keep the sizes
\* from being checked.
C18_CountAndWidth ==
  /\ Len(log) = SumN(counted)
  /\ \A c \in 1..Len(counted) :
       counted[c].check = "port_type_and_size" =>
         LET call == counted[c]
             wrong_number == IF Cardinality(SelectedBy(call)) # call.count THEN 1 ELSE 0
             lines == LinesOfCall(c)
         IN /\ call.n = wrong_number + Cardinality(WrongSize(call))
            /\ Len(SelectSeq(lines, LAMBDA d : d.msg = "port_count")) = wrong_number
            /\ Len(SelectSeq(lines, LAMBDA d : d.msg = "port_size"))
                 = Cardinality(WrongSize(call))

\* the FF model with two INPUT ports of width 2, neither global, asked for
\* three INPUT ports of width 1: three errors
C18_Witness ==
  \E c \in 1..Len(counted) :
    /\ counted[c].check = "port_type_and_size"
    /\ counted[c].type = "INPUT" /\ counted[c].count = 3 /\ counted[c].size = 1
    /\ ~counted[c].include_global
    /\ circuit_lib.models[counted[c].model + 1].type = "FF"
    /\ Cardinality(SelectedBy(counted[c])) = 2
    /\ Cardinality(WrongSize(counted[c])) = 2
    /\ counted[c].n = 3

(***************************************************************************)
(* The order of the sections of the generated netlist.                     *)
(***************************************************************************)
\* the names of the ports of a list
NamesOfPorts(port_list) == { port_list[k].name : k \in 1..Len(port_list) }

\* a comment line with one of the texts
IsComment(line, texts) ==
  line.kind = "comment" /\ \E t \in texts : line.port.name = <<t>>

\* the section a line belongs to, told from the line alone: 1 header and
\* includes, 2 module declaration and benchmark ports, 3 wire declarations,
\* 4 instance, 5 global-port connections, 6 I/O connections, 7 bitstream
\* load, 8 footer; 0 for an empty line, which only separates
SectionOf(line) ==
  CASE line.kind = "endl" -> 0
    [] line.kind \in {"file_header", "include"} -> 1
    [] line.kind \in {"module", "VERILOG_PORT_INPUT", "VERILOG_PORT_OUTPUT",
                      "module_ports_end"} -> 2
    [] line.kind = "VERILOG_PORT_WIRE" -> 3
    [] IsComment(line, {"global_ports_of_fpga_fabric", "ios_of_fpga_fabric",
                        "configuration_protocols_of_fpga_fabric"}) -> 3
    [] line.kind = "instance" -> 4
    [] IsComment(line, {"fpga_top_level_module_to_be_capsulated"}) -> 4
    [] IsComment(line, {"begin_connect_global_ports", "end_connect_global_ports"}) -> 5
    [] line.kind \in {"connection", "constant"}
       /\ line.port.name \in NamesOfPorts(module_manager.global_ports) -> 5
    [] IsComment(line, {"link_benchmark_ios", "wire_unused_ios"}) -> 6
    [] line.kind = "comment" /\ line.port.name[1] = "blif_benchmark_inout" -> 6
    [] line.kind \in {"connection", "constant"}
       /\ line.port.name \in NamesOfPorts(module_manager.gpio_ports) -> 6
    [] IsComment(line, {"begin_load_bitstream", "end_load_bitstream"}) -> 7
    [] line.kind = "constant" /\ line.port.name[1] = formal_verification_top_module_uut_name -> 7
    [] line.kind = "endmodule" -> 8
    [] OTHER -> 9

\* the lines of a section, in stream order
LinesOfSection(k) == SelectSeq(fp, LAMBDA line : SectionOf(line) = k)

\* the lines that open or close a section: each is written once
OncePerRun ==
  { <<"file_header", <<"title", "bench">>>>,
    <<"module", <<"bench", "_top_formal_verification">>>>,
    <<"module_ports_end", <<>>>>,
    <<"comment", <<"global_ports_of_fpga_fabric">>>>,
    <<"comment", <<"ios_of_fpga_fabric">>>>,
    <<"comment", <<"configuration_protocols_of_fpga_fabric">>>>,
    <<"comment", <<"fpga_top_level_module_to_be_capsulated">>>>,
    <<"instance", <<"U0_formal_verification">>>>,
    <<"comment", <<"begin_connect_global_ports">>>>,
    <<"comment", <<"end_connect_global_ports">>>>,
    <<"comment", <<"link_benchmark_ios">>>>,
    <<"comment", <<"wire_unused_ios">>>>,
    <<"comment", <<"begin_load_bitstream">>>>,
    <<"comment", <<"end_load_bitstream">>>>,
    <<"endmodule", <<"bench", "_top_formal_verification">>>> }

\* how often a line of OncePerRun is in the stream
TimesWritten(mark) ==
  Cardinality({ n \in 1..Len(fp) : fp[n].kind = mark[1] /\ fp[n].port.name = mark[2] })

\* the section the top function is writing at a position of its code
SectionAt(position) ==
  CASE position = "header" -> 0
    [] position = "ports" -> 1
    [] position = "wires" -> 2
    [] position = "instance" -> 3
    [] position = "global_ports" -> IF glob_pc = "idle" THEN 4 ELSE 5
    [] position = "ios" -> 6
    [] position = "bitstream" -> 7
    [] position = "done" -> 8
    [] position = "fault" -> 2

\* the wire declarations of the ports of a list
WireDeclarations(port_list) ==
  [k \in 1..Len(port_list) |-> [kind |-> "VERILOG_PORT_WIRE", port |-> port_list[k],
                                values |-> <<>>]]

\* the state part of C14
SectionsInOrder ==
  /\ \A n \in 1..Len(fp) : SectionOf(fp[n]) <= SectionAt(top_pc)
  /\ \A i, j \in 1..Len(fp) :
       (i < j /\ SectionOf(fp[i]) # 0 /\ SectionOf(fp[j]) # 0)
         => SectionOf(fp[i]) <= SectionOf(fp[j])
  /\ \A mark \in OncePerRun : TimesWritten(mark) <= 1
  /\ top_pc = "done" => \A mark \in OncePerRun : TimesWritten(mark) = 1
  /\ SectionAt(top_pc) >= 2 /\ top_pc # "fault" =>
       Len(LinesOfSection(2)) = Len(IoBlocks) + 2
  /\ SectionAt(top_pc) >= 3 =>
       LET wires == LinesOfSection(3)
           g == Len(module_manager.global_ports)
           io == Len(module_manager.gpio_ports)
       IN /\ SubSeq(wires, 2, g + 1) = WireDeclarations(module_manager.global_ports)
          /\ SubSeq(wires, g + 3, g + io + 2) = WireDeclarations(module_manager.gpio_ports)
          /\ SubSeq(wires, g + io + 4, Len(wires))
               = WireDeclarations(module_manager.input_ports)
          /\ IsComment(wires[1], {"global_ports_of_fpga_fabric"})
          /\ IsComment(wires[g + 2], {"ios_of_fpga_fabric"})
          /\ IsComment(wires[g + io + 3], {"configuration_protocols_of_fpga_fabric"})
  /\ \A i, j \in 1..Len(fp) :
       (SectionOf(fp[i]) = 6 /\ SectionOf(fp[j]) = 6
        /\ fp[i].kind = "constant" /\ fp[j].kind = "connection") => j < i

\* the order in which the top function moves through its code
TopOrder ==
  { <<"header", "ports">>, <<"ports", "wires">>, <<"wires", "instance">>,
    <<"wires", "fault">>, <<"instance", "global_ports">>, <<"global_ports", "ios">>,
    <<"ios", "bitstream">>, <<"bitstream", "done">> }

\* the step part of C14
SectionStep ==
  /\ Extends
  /\ top_pc' # top_pc => <<top_pc, top_pc'>> \in TopOrder
  /\ (glob_pc' # glob_pc /\ glob_pc' = "begin") => top_pc = "global_ports" /\ glob_pc = "idle"
  /\ (io_pc' # io_pc /\ io_pc' = "begin") => glob_pc = "done" /\ io_pc = "idle"
  /\ (bit_pc' # bit_pc /\ bit_pc' = "begin") => io_pc = "done" /\ bit_pc = "idle"

\* C14: the netlist is written section by section in one order: header and
\* includes, module declaration and benchmark ports, wire declarations
\* (global ports, datapath I/O ports, plain inputs), the instance of the top
\* module, the global-port connections, the I/O connections (connections
\* before constants), the bitstream load, the footer; the stream only grows,
\* every opening and closing line is written once, and no line of a section
\* comes before a line of an earlier section.
C14_SectionOrder == []SectionsInOrder /\ [][SectionStep]_vars

\* a finished netlist in which every section has lines: a wired clock and a
\* constant among the global ports, a connected and an unused pad, two
\* configuration bits
C14_Witness ==
  /\ top_pc = "done"
  /\ \E n \in 1..Len(fp) : SectionOf(fp[n]) = 5 /\ fp[n].kind = "connection"
  /\ \E n \in 1..Len(fp) : SectionOf(fp[n]) = 5 /\ fp[n].kind = "constant"
  /\ \E n \in 1..Len(fp) : SectionOf(fp[n]) = 6 /\ fp[n].kind = "connection"
  /\ \E n \in 1..Len(fp) : SectionOf(fp[n]) = 6 /\ fp[n].kind = "constant"
  /\ Len(LinesOfSection(7)) = 4
  /\ Len(LinesOfSection(3)) = 7
  /\ Len(LinesOfSection(2)) = 4

(***************************************************************************)
(* Several pads of the benchmark placed on one pad of the fabric.          *)
(***************************************************************************)
\* the pad blocks of the benchmark that are mapped to a pad index
BlocksAt(bit) == { n \in 1..Len(IoBlocks) : PadOf(IoBlocks[n]) = bit }

\* some pad index is given to two pad blocks
SharedPad == \E bit \in MappedPads : Cardinality(BlocksAt(bit)) >= 2

\* the signals a pad bit is connected to, in stream order
SignalsOn(bit) ==
  LET conns == SelectSeq(fp, LAMBDA line : line.kind = "connection" /\ PadBit(line) = bit)
  IN [n \in 1..Len(conns) |-> conns[n].values[1].name]

\* the names of the signals of the pad blocks mapped to a pad index, in
\* block order
SignalsOfBlocksAt(bit) ==
  LET blocks == SelectSeq(IoBlocks, LAMBDA lb : PadOf(lb) = bit)
  IN [n \in 1..Len(blocks) |-> <<blocks[n].name, "_fm">>]

\* C21: pad blocks that the placement maps to one and the same pad index
\* below the width raise no fault (the binder faults only without exactly one
\* datapath I/O port or at a pad index beyond the port); a finished run has
\* connected the pad bit once per block mapped to it, to the signal of each
\* of these blocks in block order, has marked the bit used and written no
\* constant for it; the constants are as many as the width minus the number
\* of distinct mapped indices.
C21_SharedPadIndex ==
  /\ io_pc = "fault" =>
       \/ Len(GpioPorts) # 1
       \/ /\ io_i < Len(L_logical_blocks)
          /\ PadOf(L_logical_blocks[io_i + 1]) >= PadWidth
  /\ io_pc = "done" =>
       /\ Len(LinesOfKind("connection")) = Len(IoBlocks)
       /\ Len(LinesOfKind("constant")) = PadWidth - Cardinality(MappedPads)
       /\ \A bit \in MappedPads :
            /\ SignalsOn(bit) = SignalsOfBlocksAt(bit)
            /\ Len(SignalsOn(bit)) = Cardinality(BlocksAt(bit))
            /\ io_used[bit + 1]
            /\ DriversOf("constant", bit) = 0

\* three pad blocks on a port of width 3, two of them on pad 0 and one on
\* pad 2: three connections, two of them to bit 0, and one constant
C21_Witness ==
  /\ io_pc = "done"
  /\ SharedPad
  /\ PadWidth = 3
  /\ Len(IoBlocks) = 3
  /\ MappedPads = {0, 2}
  /\ Len(SignalsOn(0)) = 2
  /\ Len(LinesOfKind("connection")) = 3
  /\ Len(LinesOfKind("constant")) = 1

(***************************************************************************)
(* Several circuit ports of the name of one global port.                   *)
(***************************************************************************)
\* the binder is at a global port of the top module
AtGlobalPort == glob_pc = "loop" /\ glob_i < Len(ModuleGlobalPorts)

\* the position in global_ports of the first circuit port named as mp
FirstMatch(mp) ==
  CHOOSE i \in MatchingPositions(mp) : \A j \in MatchingPositions(mp) : i <= j

\* the circuit port at a position of global_ports
GlobalPortAt(i) == circuit_lib.ports_by_id[global_ports[i]]

\* a later circuit port of the name of mp differs from the first one in an
\* attribute the binder reads
LaterDiffers(mp) ==
  \E j \in MatchingPositions(mp) :
    /\ j # FirstMatch(mp)
    /\ \/ GlobalPortAt(j).size # GlobalPortAt(FirstMatch(mp)).size
       \/ GlobalPortAt(j).type # GlobalPortAt(FirstMatch(mp)).type
       \/ GlobalPortAt(j).default_value # GlobalPortAt(FirstMatch(mp)).default_value

\* C22: when two or more circuit ports of global_ports are named as a global
\* port of the top module, the binder does not fault on that account and
\* binds the port by the first of them in the order of global_ports alone:
\* it faults exactly when the size of the first one is not the width of the
\* module port, whatever the sizes of the later ones, and otherwise the
\* first one's type and is_prog flag decide between wiring to the benchmark
\* clocks and tying off, and its default value is the value tied to.
C22_FirstMatchUsed ==
  [][(AtGlobalPort /\ Cardinality(MatchingPositions(ModuleGlobalPorts[glob_i + 1])) >= 2) =>
       LET mp == ModuleGlobalPorts[glob_i + 1]
           cp == GlobalPortAt(FirstMatch(mp))
       IN IF cp.size # WidthOf(mp)
          THEN glob_pc' = "fault" /\ fp' = fp /\ glob_i' = glob_i
          ELSE /\ glob_pc' = "loop"
               /\ glob_i' = glob_i + 1
               /\ Extends
               /\ IF cp.type = "CLOCK" /\ ~cp.is_prog
                  THEN WiredToEveryClock(Appended, mp)
                  ELSE TiedOffTo(Appended, mp, cp.default_value)]_vars

\* the port clk of width 1 is bound with the INPUT port clk of default
\* value 1 before the CLOCK port clk in global_ports, and two benchmark
\* clocks: it is tied to 1 and wired to no clock
C22_Witness ==
  /\ glob_pc = "done"
  /\ Len(benchmark_clock_port_names) = 2
  /\ \E k \in 1..Len(ModuleGlobalPorts) :
       /\ ModuleGlobalPorts[k].name = <<"clk">>
       /\ Cardinality(MatchingPositions(ModuleGlobalPorts[k])) >= 2
       /\ LaterDiffers(ModuleGlobalPorts[k])
       /\ GlobalPortAt(FirstMatch(ModuleGlobalPorts[k])).type = "INPUT"
  /\ LinesOfKind("connection") = <<>>
  /\ \E n \in 1..Len(fp) :
       /\ fp[n].kind = "constant"
       /\ fp[n].port.name = <<"clk">>
       /\ fp[n].values = <<1>>

(***************************************************************************)
(* The drivers of the global ports of the top module.                      *)
(***************************************************************************)
\* the lines of the stream that drive a bit of a module port: a connection
\* or a constant whose port has the name and spans the bit
DriversOfGlobalBit(mp, bit) ==
  { n \in 1..Len(fp) :
      /\ fp[n].kind \in {"connection", "constant"}
      /\ fp[n].port.name = mp.name
      /\ fp[n].port.lsb <= bit /\ bit <= fp[n].port.msb }

\* a module port bound as an operating clock
BoundAsClock(mp) == MatchingPositions(mp) # {} /\ IsPassedThrough(MatchedPort(mp))

\* C23 as stated: in a run of the global-port binder that finishes without a
\* fault every bit of every global port of the top module has at least one
\* driver, a connection or a constant.
C23_Original ==
  glob_pc = "done" =>
    \A k \in 1..Len(ModuleGlobalPorts) :
      \A bit \in ModuleGlobalPorts[k].lsb..ModuleGlobalPorts[k].msb :
        DriversOfGlobalBit(ModuleGlobalPorts[k], bit) # {}

\* C23, what the binder does: in a finished run every bit of a global port
\* bound as an operating clock has as many drivers as the benchmark has
\* clocks, none when it has no clock, and every bit of another global port
\* has as many drivers as the module has ports of that name, at least one.
C23_DriversPerBit ==
  glob_pc = "done" =>
    \A k \in 1..Len(ModuleGlobalPorts) :
      LET mp == ModuleGlobalPorts[k]
          same == { j \in 1..Len(ModuleGlobalPorts) : ModuleGlobalPorts[j].name = mp.name }
      IN \A bit \in mp.lsb..mp.msb :
           Cardinality(DriversOfGlobalBit(mp, bit)) =
             IF BoundAsClock(mp)
             THEN Cardinality(same) * Len(benchmark_clock_port_names)
             ELSE Cardinality(same)

\* a finished run over a benchmark without clocks: the operating clock clk
\* of the top module has no driver, the port rst next to it is tied off
C23_Witness ==
  /\ glob_pc = "done"
  /\ benchmark_clock_port_names = <<>>
  /\ Len(ModuleGlobalPorts) = 2
  /\ ModuleGlobalPorts[1].name = <<"clk">>
  /\ BoundAsClock(ModuleGlobalPorts[1])
  /\ DriversOfGlobalBit(ModuleGlobalPorts[1], 0) = {}
  /\ ModuleGlobalPorts[2].name = <<"rst">>
  /\ Cardinality(DriversOfGlobalBit(ModuleGlobalPorts[2], 0)) = 1

====
